---- MODULE Spec2Model ----
(***************************************************************************)
(* A model of watchfiles: the iterator facades watch / awatch and          *)
(* _prep_changes of src/watchfiles/main.py, and the debouncer behind       *)
(* RustNotify.watch (specification section 4.4 - 4.5; the native extension *)
(* is not part of the Python sources).                                     *)
(*                                                                         *)
(* AllWatcher of src/watchgod/watcher.py is the polling watcher.           *)
(*                                                                         *)
(* run_process / arun_process and CombinedProcess of src/watchfiles/run.py *)
(* are the runner.                                                         *)
(*                                                                         *)
(* Five specifications share the variables:                                *)
(*   Spec          the facades, driven by the outcomes of RustNotify.watch *)
(*   SpecDebounce  one session: event channel, debouncer with a clock,     *)
(*                 close                                                   *)
(*   SpecPoll      one AllWatcher over a tree of files that changes        *)
(*   SpecNative    one session whose native backend translates file-system *)
(*                 operations into raw events (specification section 4.2)  *)
(*   SpecRun       the runner over the facades                             *)
(***************************************************************************)
EXTENDS Integers, Sequences, FiniteSets, TLC

\* ------------------------------------------------------------------ bounds
MaxCalls == 3        \* calls of watcher.watch made by one facade run
MaxTime == 7         \* clock ticks (ms) of one debouncer run
MaxEvents == 3       \* raw events the backend pushes in one debouncer run
MaxWatchCalls == 2   \* RustNotify.watch calls of one session
ChanCap == 2         \* capacity of the event channel
MaxCloses == 2       \* close() calls made on one session
MaxMtime == 1        \* largest st_mtime of a file of the polled tree
MaxOps == 3          \* file-system operations of one polling run
MaxChecks == 2       \* check() calls made after construction
MaxWalkErrors == 1   \* walks of one polling run that raise an error
MaxOsOps == 2        \* file-system operations of one native watcher run

\* ------------------------------------------------------------- data model
Paths == {"foo.txt", "spam.pyc"}

\* the integers the backend uses on the wire for the kind of a change
RawKinds == {1, 2, 3}

RawEvents == RawKinds \X Paths

\* a conversion that confuses the members modified and deleted
ChangeConfused(k) ==
  CASE k = 1 -> "added"
    [] k = 2 -> "deleted"
    [] k = 3 -> "modified"

\* class Change(IntEnum): the member with the given value
Change(k) ==
  CASE k = 1 -> "added"
    [] k = 2 -> "modified"
    [] k = 3 -> "deleted"

ChangeMembers == {"added", "modified", "deleted"}

\* the outcomes of RustNotify.watch as they cross into Python: a set of
\* (kind_int, path) tuples, or one of the tokens "timeout", "stop", "signal"
Tokens == {"timeout", "stop", "signal"}

ChangesOutcome(S) == [tag |-> "changes", set |-> S]

TokenOutcome(t) == [tag |-> t, set |-> {}]

NoOutcome == [tag |-> "none", set |-> {}]

BackendOutcomes ==
  {ChangesOutcome(S) : S \in (SUBSET RawEvents) \ {{}}}
    \cup {TokenOutcome(t) : t \in Tokens}

\* the watch_filter argument: None, or a callable (Change, path) -> bool
Filters == {"None", "all", "nothing", "only_added", "not_pyc", "no_deleted_foo"}

FilterCall(f, c, p) ==
  CASE f = "all" -> TRUE
    [] f = "nothing" -> FALSE
    [] f = "only_added" -> c = "added"
    [] f = "not_pyc" -> p # "spam.pyc"
    [] f = "no_deleted_foo" -> ~(c = "deleted" /\ p = "foo.txt")

VARIABLES
  \* ---- the facades (watch / awatch of main.py)
  mode,             \* "watch" or "awatch"
  watch_filter,     \* the watch_filter argument
  raise_interrupt,  \* the raise_interrupt argument
  pc,               \* "call", "waiting", "yield", "returned", "raised",
                    \* "abandoned"
  exc,              \* the exception a raised generator ended with
  raw_changes,      \* what the last watcher.watch call returned
  changes,          \* the set last built by _prep_changes
  watch_count,      \* number of watcher.watch calls made
  n_yield,          \* number of batches yielded to the consumer
  stop_event_set,   \* awatch: stop_event_.is_set()
  interrupted,      \* awatch: the nonlocal interrupted flag
  cancelled,        \* awatch: the task awaiting the worker was cancelled
  set_during_call,  \* awatch: stop_event_ was set while the watcher.watch call
                    \* now awaited was running
  \* ---- the debouncer (RustNotify.watch)
  now,              \* the clock, in ms
  channel,          \* the event channel: raw events queued by the backend
  stop_event,       \* "None", "unset" or "set": the stop capability of a call
  dpc,              \* "idle" or "wait": whether a watch call is blocked in a pop
  debounce_ms, step_ms, timeout_ms,   \* the arguments of the running call
  T0,               \* start time of the running call
  first_event_time, \* time of the first event of the call (-1: none yet)
  last_event_time,  \* time of the last event popped in the call
  deadline,         \* deadline of the pending pop
  acc,              \* the accumulator of the call
  outcome,          \* the outcome of the last completed call
  ret_time,         \* when the last completed call returned
  ret_how,          \* "event" or "quiet": the pop that ended the last call
  hist,             \* history: raw events pushed, dropped, delivered, discarded;
                    \* the events taken by the call; when stop was set
  closed,           \* the closed flag of the session
  n_close,          \* number of close() calls made on the session
  \* ---- the polling watcher (AllWatcher of watchgod/watcher.py)
  pfs,              \* the file system under root_path: path -> mtime, or Absent
  files,            \* self.files: the stored snapshot
  check_result,     \* the set the last check() returned
  poll_pc,          \* "new" before __init__ ran, then "ready"
  n_checks,         \* number of check() calls made after construction
  n_ops,            \* number of file-system operations made
  stayed,           \* history: paths present at construction and ever since
  phist,            \* history of the polling run: the error the last walk
                    \* raised, the exception the last check() let out, the
                    \* warnings logged, the paths of the tree at construction,
                    \* the records returned by the checks so far and the
                    \* records a native watcher publishes for the operations
  \* ---- the native watcher (RustNotify(watch_paths, ..., recursive, ...))
  recursive,        \* the recursive argument of the session
  nhist,            \* history of the native run: the rename made and the
                    \* number of file-system operations made
  \* ---- the runner (run_process / arun_process of run.py)
  run_pc,           \* "idle", "init", "loop", "await_callback", "called_back",
                    \* "stop_join", "stopped", "final", "final_join",
                    \* "returned", "raised"
  target_type,      \* "function" or "command"
  callback,         \* "None", "sync" (a function) or "coroutine"
  sigint_timeout,   \* the sigint_timeout argument of the run
  sigkill_timeout,  \* the sigkill_timeout argument of the run
  child,            \* the process held in `process`: "none", "alive", "dead"
  environ,          \* os.environ['WATCHFILES_CHANGES'] of the parent
  reloads,          \* the local variable reloads
  rhist             \* history of the run: processes started, callback calls
                    \* made and awaited, the argument of the last call, the
                    \* variable as the last child got
                    \* it, and of the last stop() the signals sent, the
                    \* timeouts it waited with, what it found and how it ended

\* ---- the choice of the backend (_default_force_polling)
VARIABLES
  sel_pc,           \* "idle", "args" (before the call), "done"
  force_polling,    \* the force_polling argument: "None", "True" or "False"
  env_force_polling, \* os.environ['WATCHFILES_FORCE_POLLING']
  uname,            \* what platform.uname() returns: system and release
  selected          \* the value returned, and the calls of platform.uname made

\* ---- a call of a filter (BaseFilter.__call__)
VARIABLES
  f_pc,             \* "idle", "args" (before the call), "done"
  flt,              \* the filter: _ignore_dirs, _ignore_entity_regexes and
                    \* _ignore_paths
  f_change,         \* the change argument
  f_path,           \* the path argument, a str
  f_result          \* the value returned

\* ---- the command line (cli)
VARIABLES
  cli_pc,           \* where cli() is: "idle", "parsed", "typed", "imported",
                    \* "resolved", "running" (in run_process), "exited"
                    \* (sys.exit was called), "raised"
  arg_namespace,    \* the arguments parsed: target, target_type, paths
  cli_target_type,  \* the local variable target_type
  cli_paths,        \* the local variable paths
  stderr,           \* what was written to sys.stderr
  exit_status       \* "none", or the status the process exits with

facadeVars == <<mode, watch_filter, raise_interrupt, pc, exc, raw_changes,
                changes, watch_count, n_yield, stop_event_set, interrupted,
                cancelled, set_during_call>>

debounceVars == <<now, channel, stop_event, dpc, debounce_ms, step_ms,
                  timeout_ms, T0, first_event_time, last_event_time, deadline,
                  acc, outcome, ret_time, ret_how, hist, closed, n_close>>

pollVars == <<pfs, files, check_result, poll_pc, n_checks, n_ops,
              stayed, phist>>

nativeVars == <<recursive, nhist>>

runVars == <<run_pc, target_type, callback, sigint_timeout, sigkill_timeout,
             child, environ, reloads, rhist>>

selectVars == <<sel_pc, force_polling, env_force_polling, uname, selected>>

\* the variables of the functions that are called on their own
filterVars == <<f_pc, flt, f_change, f_path, f_result>>

cliVars == <<cli_pc, arg_namespace, cli_target_type, cli_paths, stderr,
             exit_status>>

pureVars == <<selectVars, filterVars, cliVars>>

vars == <<facadeVars, debounceVars, pollVars, nativeVars, runVars, pureVars>>

\* ---------------------------------------------------------- _prep_changes
\* iterating a str yields one-character strings, which do not unpack into
\* (change, path): the comprehension raises ValueError for a token
PrepRaises(raw) == raw.tag \in Tokens

\* a conversion that drops the added record of a path also deleted
ConvertedReconciled(raw_set) ==
  {<<Change(r[1]), r[2]>> : r \in {x \in raw_set :
                                      ~(x[1] = 1 /\ <<3, x[2]>> \in raw_set)}}

\* changes = {(Change(change), path) for change, path in raw_changes}
Converted(raw_set) == {<<Change(r[1]), r[2]>> : r \in raw_set}

\* _prep_changes without its `if watch_filter:` step
PrepChangesNoFilter(raw_set, f) == Converted(raw_set)

\* _prep_changes(raw_changes, watch_filter)
PrepChanges(raw_set, f) ==
  LET cs == Converted(raw_set)
  IN IF f # "None" THEN {c \in cs : FilterCall(f, c[1], c[2])} ELSE cs

\* a yield that is not guarded
YieldsAlways(cs) == TRUE

\* `if changes:` (main.py line 101 and line 203)
Truthy(cs) == cs # {}

\* `raw_changes is None`
IsNone(raw) == raw.tag = "none"

\* ------------------------------------------------------------ the facades
\* the state of the debouncer before any watch call
InitDebounceIdle ==
  /\ now = 0
  /\ channel = <<>>
  /\ stop_event = "None"
  /\ dpc = "idle"
  /\ debounce_ms = 0 /\ step_ms = 0 /\ timeout_ms = 0
  /\ T0 = 0
  /\ first_event_time = -1
  /\ last_event_time = -1
  /\ deadline = 0
  /\ acc = {}
  /\ outcome = NoOutcome
  /\ ret_time = 0
  /\ ret_how = "none"
  /\ hist = [pushed |-> 0, dropped |-> 0, inacc |-> 0, delivered |-> 0,
             discarded |-> 0, calls |-> 0, stop_time |-> -1, ret_stop |-> FALSE,
             taken |-> {}, error |-> "none", failed |-> 0]
  /\ closed = FALSE
  /\ n_close = 0

\* the paths under the root_path of a polling watcher
PollPaths == {"a.txt", "b.py"}

\* the value of pfs and of a snapshot for a path that does not exist
Absent == -1

\* no polling watcher is part of the run
InitPollIdle ==
  /\ pfs = [p \in PollPaths |-> Absent]
  /\ files = [p \in PollPaths |-> Absent]
  /\ check_result = {}
  /\ poll_pc = "new"
  /\ n_checks = 0
  /\ n_ops = 0
  /\ stayed = {}
  /\ phist = [walk_err |-> "none", exc |-> "none", n_log |-> 0, baseline |-> {},
              poll_union |-> {}, native_union |-> {}]

\* no native watcher translates file-system operations in the run
InitNativeIdle ==
  /\ recursive = TRUE
  /\ nhist = [renamed |-> <<>>, n_os |-> 0]

\* the value of os.environ['WATCHFILES_CHANGES']: not set, or the JSON array
\* it holds, as the sequence of its [kind_name, path] pairs
EnvUnset == [set |-> FALSE, value |-> <<>>]

EnvValue(v) == [set |-> TRUE, value |-> v]

\* def stop(self, sigint_timeout: int = 5, sigkill_timeout: int = 1)
DefaultSigintTimeout == 5

DefaultSigkillTimeout == 1

\* no runner is part of the run
InitRunIdle ==
  /\ run_pc = "idle"
  /\ target_type = "function"
  /\ callback = "None"
  /\ sigint_timeout = DefaultSigintTimeout
  /\ sigkill_timeout = DefaultSigkillTimeout
  /\ child = "none"
  /\ environ = EnvUnset
  /\ reloads = 0
  /\ rhist = [started |-> 0, n_cb |-> 0, n_awaited |-> 0, child_env |-> EnvUnset,
              stops |-> 0, final |-> FALSE, signals |-> <<>>, to_int |-> 0,
              to_kill |-> 0, found |-> "none", exit_seen |-> "none",
              left_alive |-> FALSE, raised |-> FALSE, exc |-> "none",
              cb_arg |-> {}]

\* platform.uname() before it is looked at
NoUname == [system |-> <<>>, release |-> <<>>]

\* cli() is not called
InitCliIdle ==
  /\ cli_pc = "idle"
  /\ arg_namespace = [target |-> "os.getcwd", target_type |-> "auto",
                      paths |-> <<".">>]
  /\ cli_target_type = "none"
  /\ cli_paths = <<>>
  /\ stderr = <<>>
  /\ exit_status = "none"

\* no filter is called on its own
InitFilterIdle ==
  /\ f_pc = "idle"
  /\ flt = [ignore_dirs |-> {}, ignore_entity_regexes |-> <<>>,
            ignore_paths |-> <<>>]
  /\ f_change = "added"
  /\ f_path = <<>>
  /\ f_result = FALSE

\* _default_force_polling is not called
InitSelectIdle ==
  /\ sel_pc = "idle"
  /\ force_polling = "None"
  /\ env_force_polling = EnvUnset
  /\ uname = NoUname
  /\ selected = [value |-> FALSE, uname_calls |-> 0]

\* none of the functions called on their own is part of the run
InitPureIdle == InitSelectIdle /\ InitFilterIdle /\ InitCliIdle

\* watch(...) / awatch(...) up to `watcher = RustNotify(...)`
Init ==
  /\ mode \in {"watch", "awatch"}
  /\ watch_filter \in Filters
  /\ raise_interrupt \in BOOLEAN
  /\ pc = "call"
  /\ exc = "none"
  /\ raw_changes = NoOutcome
  /\ changes = {}
  /\ watch_count = 0
  /\ n_yield = 0
  /\ stop_event_set \in (IF mode = "awatch" THEN BOOLEAN ELSE {FALSE})
  /\ interrupted = FALSE
  /\ cancelled = FALSE
  /\ set_during_call = FALSE
  /\ InitDebounceIdle
  /\ InitPollIdle
  /\ InitNativeIdle
  /\ InitRunIdle
  /\ InitPureIdle

\* watch: `raw_changes = watcher.watch(debounce, step, None)`, the call made;
\* awatch: the task group entered, signal_handler started and watcher.watch
\* running in the worker thread
CallWatch ==
  /\ pc = "call"
  /\ watch_count < MaxCalls
  /\ pc' = "waiting"
  /\ watch_count' = watch_count + 1
  /\ UNCHANGED <<mode, watch_filter, raise_interrupt, exc, raw_changes,
                 changes, n_yield, stop_event_set, interrupted>>
  /\ set_during_call' = FALSE
  /\ UNCHANGED <<cancelled, debounceVars, pollVars, nativeVars, pureVars, runVars>>

\* awatch's signal_handler receives SIGINT while the worker is awaited
SignalHandler ==
  /\ mode = "awatch"
  /\ pc = "waiting"
  /\ ~interrupted
  /\ ~cancelled
  /\ interrupted' = TRUE
  /\ stop_event_set' = TRUE
  /\ UNCHANGED <<mode, watch_filter, raise_interrupt, pc, exc, raw_changes,
                 changes, watch_count, n_yield>>
  /\ set_during_call' = TRUE
  /\ UNCHANGED <<cancelled, debounceVars, pollVars, nativeVars, pureVars, runVars>>

\* the owner of the stop_event given to awatch sets it
SetStopEvent ==
  /\ mode = "awatch"
  /\ pc \in {"call", "waiting", "yield"}
  /\ ~stop_event_set
  /\ stop_event_set' = TRUE
  /\ UNCHANGED <<mode, watch_filter, raise_interrupt, pc, exc, raw_changes,
                 changes, watch_count, n_yield, interrupted>>
  /\ set_during_call' = (pc = "waiting")
  /\ UNCHANGED <<cancelled, debounceVars, pollVars, nativeVars, pureVars, runVars>>

\* what watcher.watch may return to the facade: called with the stop
\* capability set the debouncer returns Stop, otherwise any outcome. (A call
\* that was running when the capability was set may have returned changes
\* before it saw it.)
Returnable ==
  IF mode = "awatch" /\ stop_event_set /\ ~set_during_call
    THEN {TokenOutcome("stop")}
    ELSE BackendOutcomes

\* watch, main.py lines 93 - 103, with r the value of raw_changes:
\* the control state, exception and batch the loop body ends with
WatchBody(r) ==
  IF IsNone(r)
    THEN IF raise_interrupt
           THEN [pc |-> "raised", exc |-> "KeyboardInterrupt", cs |-> changes]
           ELSE [pc |-> "returned", exc |-> "none", cs |-> changes]
    ELSE IF PrepRaises(r)
           THEN [pc |-> "raised", exc |-> "ValueError", cs |-> changes]
           ELSE LET cs == PrepChanges(r.set, watch_filter)
                IN IF Truthy(cs)
                     THEN [pc |-> "yield", exc |-> "none", cs |-> cs]
                     ELSE [pc |-> "call", exc |-> "none", cs |-> cs]

\* an awatch body that looks at stop_event_ before the value it was given and
\* returns without yielding when the event is set
AwatchBodyStopFirst(r) ==
  IF stop_event_set \/ IsNone(r)
    THEN IF interrupted /\ raise_interrupt
           THEN [pc |-> "raised", exc |-> "KeyboardInterrupt", cs |-> changes]
           ELSE [pc |-> "returned", exc |-> "none", cs |-> changes]
    ELSE IF PrepRaises(r)
           THEN [pc |-> "raised", exc |-> "ValueError", cs |-> changes]
           ELSE LET cs == PrepChanges(r.set, watch_filter)
                IN IF Truthy(cs)
                     THEN [pc |-> "yield", exc |-> "none", cs |-> cs]
                     ELSE [pc |-> "call", exc |-> "none", cs |-> cs]

\* awatch, main.py lines 194 - 205
AwatchBody(r) ==
  IF IsNone(r)
    THEN IF interrupted /\ raise_interrupt
           THEN [pc |-> "raised", exc |-> "KeyboardInterrupt", cs |-> changes]
           ELSE [pc |-> "returned", exc |-> "none", cs |-> changes]
    ELSE IF PrepRaises(r)
           THEN [pc |-> "raised", exc |-> "ValueError", cs |-> changes]
           ELSE LET cs == PrepChanges(r.set, watch_filter)
                IN IF Truthy(cs)
                     THEN [pc |-> "yield", exc |-> "none", cs |-> cs]
                     ELSE [pc |-> "call", exc |-> "none", cs |-> cs]

\* awatch, main.py lines 189 - 192: the task awaiting the worker thread is
\* cancelled. anyio.to_thread.run_sync is called without cancellable=True, so
\* the await is shielded until watcher.watch has returned; nothing in awatch
\* handles the cancellation and stop_event_ is left as it is.
Cancel ==
  /\ mode = "awatch"
  /\ pc = "waiting"
  /\ ~cancelled
  /\ cancelled' = TRUE
  /\ UNCHANGED <<mode, watch_filter, raise_interrupt, pc, exc, raw_changes,
                 changes, watch_count, n_yield, stop_event_set, interrupted,
                 set_during_call>>
  /\ UNCHANGED <<debounceVars, pollVars, nativeVars, pureVars, runVars>>

\* watcher.watch returns r and the facade runs the rest of the loop body;
\* in a cancelled task the await raises CancelledError instead of giving r
WatchReturn ==
  /\ pc = "waiting"
  /\ \E r \in Returnable :
       LET b == IF mode = "watch" THEN WatchBody(r) ELSE AwatchBody(r)
       IN IF cancelled
            THEN /\ pc' = "raised"
                 /\ exc' = "CancelledError"
                 /\ UNCHANGED <<raw_changes, changes, n_yield>>
            ELSE /\ raw_changes' = r
                 /\ pc' = b.pc
                 /\ exc' = b.exc
                 /\ changes' = b.cs
                 /\ n_yield' = IF b.pc = "yield" THEN n_yield + 1 ELSE n_yield
  /\ UNCHANGED <<mode, watch_filter, raise_interrupt, watch_count,
                 stop_event_set, interrupted>>
  /\ UNCHANGED <<cancelled, set_during_call, debounceVars, pollVars, nativeVars, pureVars,
                 runVars>>

\* the consumer asks for the next batch: the generator resumes after `yield`
Resume ==
  /\ pc = "yield"
  /\ pc' = "call"
  /\ UNCHANGED <<mode, watch_filter, raise_interrupt, exc, raw_changes,
                 changes, watch_count, n_yield, stop_event_set, interrupted>>
  /\ UNCHANGED <<cancelled, set_during_call, debounceVars, pollVars, nativeVars, pureVars,
                 runVars>>

\* the consumer abandons the iteration at a yielded batch (break, or
\* close() / aclose() of the generator): GeneratorExit is raised at the
\* `yield`, which is inside no try or with block
Abandon ==
  /\ pc = "yield"
  /\ pc' = "abandoned"
  /\ UNCHANGED <<mode, watch_filter, raise_interrupt, exc, raw_changes,
                 changes, watch_count, n_yield, stop_event_set, interrupted>>
  /\ UNCHANGED <<cancelled, set_during_call, debounceVars, pollVars, nativeVars, pureVars,
                 runVars>>

Next ==
  \/ CallWatch
  \/ SignalHandler
  \/ SetStopEvent
  \/ Cancel
  \/ WatchReturn
  \/ Resume
  \/ Abandon

Spec == Init /\ [][Next]_vars

\* ------------------------------------------------- properties of the facades
\* specification section 3: the wire values 1, 2, 3 are Added, Modified, Deleted
KindOf == (1 :> "added") @@ (2 :> "modified") @@ (3 :> "deleted")

\* the predicate of the session accepts the raw event r
Accepted(r) ==
  watch_filter = "None" \/ FilterCall(watch_filter, KindOf[r[1]], r[2])

\* C1: filter soundness. Every record of a batch yielded by watch or awatch
\* satisfies watch_filter(kind, path); with watch_filter None every raw
\* change of the cycle is in the batch.
C1_FilterSoundness ==
  pc = "yield" =>
    /\ \A c \in changes :
         watch_filter = "None" \/ FilterCall(watch_filter, c[1], c[2])
    /\ watch_filter = "None" =>
         \A r \in raw_changes.set : <<KindOf[r[1]], r[2]>> \in changes

\* a batch is yielded from which the filter removed a raw change
C1_Witness ==
  /\ pc = "yield"
  /\ watch_filter = "only_added"
  /\ \E r \in raw_changes.set : r[1] # 1
  /\ changes # {}

\* C2: watch and awatch never yield an empty batch; when the filter rejects
\* every change of a cycle nothing is yielded for it and control is back at
\* the call of watcher.watch. (A cancelled await completes no cycle.)
C2_NoEmptyBatch ==
  /\ [](pc = "yield" => changes # {})
  /\ [][(/\ pc = "waiting"
         /\ pc' # "waiting"
         /\ ~cancelled
         /\ raw_changes'.tag = "changes"
         /\ \A r \in raw_changes'.set : ~Accepted(r))
        => (pc' = "call" /\ n_yield' = n_yield)]_vars

\* a cycle whose changes were all rejected was not delivered and
\* watcher.watch has been called again
C2_Witness ==
  /\ pc = "waiting"
  /\ watch_count = 2
  /\ n_yield = 0
  /\ raw_changes.tag = "changes"
  /\ \A r \in raw_changes.set : ~Accepted(r)

\* C3: normalization is exact. The set built by _prep_changes from the raw
\* changes of a cycle holds (Change(k), p) for every accepted raw (k, p), with
\* 1, 2, 3 mapped to added, modified, deleted, nothing else, and one record
\* per distinct accepted raw change.
C3_NormalizationExact ==
  raw_changes.tag = "changes" =>
    /\ \A r \in raw_changes.set :
         Accepted(r) => <<KindOf[r[1]], r[2]>> \in changes
    /\ \A c \in changes :
         \E r \in raw_changes.set : Accepted(r) /\ c = <<KindOf[r[1]], r[2]>>
    /\ Cardinality(changes) = Cardinality({r \in raw_changes.set : Accepted(r)})

\* a batch with all three kinds, two of them on the same path, after a
\* filter dropped another raw change
C3_Witness ==
  /\ pc = "yield"
  /\ watch_filter = "not_pyc"
  /\ raw_changes.set = {<<1, "foo.txt">>, <<2, "foo.txt">>, <<3, "foo.txt">>,
                        <<2, "spam.pyc">>}
  /\ changes = {<<"added", "foo.txt">>, <<"modified", "foo.txt">>,
                <<"deleted", "foo.txt">>}

\* C10: when watcher.watch returns the Stop outcome the synchronous iterator
\* ends the sequence, without yielding and without raising.
C10_StopEndsWatch ==
  (mode = "watch" /\ pc # "waiting" /\ raw_changes.tag = "stop")
    => (pc = "returned" /\ exc = "none")

\* the generator has ended: by return, by an exception, or abandoned
Terminated == pc \in {"returned", "raised", "abandoned"}

\* C11: when watcher.watch returns the Timeout outcome the iterator yields
\* nothing for it and goes on to call watcher.watch again; the sequence neither
\* ends nor raises because of a timeout.
C11_TimeoutLoops ==
  (pc # "waiting" /\ raw_changes.tag = "timeout")
    => (pc = "call" /\ exc = "none")

\* C12: when the synchronous iterator observes the Signal outcome it raises
\* KeyboardInterrupt if raise_interrupt is true, and otherwise ends the
\* sequence without raising; no batch is yielded afterwards.
C12_SignalEndsWatch ==
  (mode = "watch" /\ pc # "waiting" /\ raw_changes.tag = "signal")
    => IF raise_interrupt
         THEN pc = "raised" /\ exc = "KeyboardInterrupt"
         ELSE pc = "returned" /\ exc = "none"

\* C13: the watch session opened by watch / awatch is closed on every
\* termination path of the iterator: return, raised error, abandoned iteration.
C13_SessionClosedOnTermination == Terminated => closed

\* C15: once the stop_event given to awatch is set, awatch yields no further
\* batch and ends the iteration without raising, whatever raise_interrupt is.
C15_StopEventEndsAwatch ==
  /\ []((/\ mode = "awatch"
         /\ stop_event_set
         /\ ~interrupted
         /\ ~cancelled
         /\ pc \in {"returned", "raised"}) => (pc = "returned" /\ exc = "none"))
  /\ [][(mode = "awatch" /\ stop_event_set) => n_yield' = n_yield]_vars

\* C16: when SIGINT arrives while awatch awaits the worker, signal_handler
\* sets stop_event, the worker returns and awatch terminates: it raises
\* KeyboardInterrupt if raise_interrupt is true and otherwise ends the
\* iteration without raising.
C16_SigintEndsAwatch ==
  /\ interrupted => stop_event_set
  /\ (interrupted /\ ~cancelled /\ pc # "waiting") =>
       IF raise_interrupt
         THEN pc = "raised" /\ exc = "KeyboardInterrupt"
         ELSE pc = "returned" /\ exc = "none"

\* C17: cancelling the task that awaits awatch sets stop_event, so that the
\* worker running watcher.watch returns within one step; the cancellation is
\* delivered only once the worker has completed.
C17_CancelSetsStopEvent ==
  /\ cancelled => stop_event_set
  /\ exc = "CancelledError" => (cancelled /\ pc = "raised")

\* C18 as claimed: no batch delivered to a consumer holds both an added and
\* a deleted record for the same path.
C18_NoAddedAndDeleted ==
  pc = "yield" =>
    \A p \in Paths : ~(<<"added", p>> \in changes /\ <<"deleted", p>> \in changes)

\* C18 as amended: _prep_changes reconciles nothing across kinds. A yielded
\* batch holds an added and a deleted record for the same path exactly when
\* the raw changes of the cycle hold both for that path and the filter
\* accepts both.
C18_AddedAndDeletedKept ==
  pc = "yield" =>
    \A p \in Paths :
      (<<"added", p>> \in changes /\ <<"deleted", p>> \in changes)
        <=> (/\ <<1, p>> \in raw_changes.set /\ Accepted(<<1, p>>)
             /\ <<3, p>> \in raw_changes.set /\ Accepted(<<3, p>>))

\* a file was created and removed within one cycle: the yielded batch holds
\* both records for it
C18_Witness ==
  /\ pc = "yield"
  /\ raw_changes.set = {<<1, "foo.txt">>, <<3, "foo.txt">>}
  /\ changes = {<<"added", "foo.txt">>, <<"deleted", "foo.txt">>}

\* =========================================================== the debouncer
\* RustNotify.watch(debounce_ms, step_ms, timeout_ms, stop_event) and the
\* event channel, after specification sections 4.4 and 4.5.

\* the raw events the backend thread pushes
BackendEvents == {<<1, "foo.txt">>, <<2, "foo.txt">>}

\* the arguments <<debounce_ms, step_ms, timeout_ms>> the calls are made
\* with: timeout < step < debounce, step < debounce < timeout, and no timeout
\* with the debounce bound below and above the step
Arguments == {<<3, 2, 1>>, <<2, 1, 3>>, <<1, 2, 0>>, <<3, 1, 0>>, <<1, 1, 2>>}

Min(a, b) == IF a < b THEN a ELSE b

Max(a, b) == IF a < b THEN b ELSE a

\* section 4.4: a push never blocks; an overflow drops the oldest queued event
Enqueue(q, e) ==
  IF Len(q) >= ChanCap THEN Append(Tail(q), e) ELSE Append(q, e)

\* an accumulator that keeps only the event popped last
AccumulateOnlyLast(a, e) == {e}

\* section 4.5 step 3: add the popped event to the accumulator
Accumulate(a, e) == a \cup {e}

\* a pop that, once an event is accumulated, blocks for two steps
PopDeadlineTwoSteps(t, s, tmo, t0, empty) ==
  IF empty /\ tmo # 0 THEN Min(t + s, t0 + tmo) ELSE t + 2 * s

\* section 4.5 step 2 and 3: the deadline of the next pop, started at time t.
\* Before the first event the pop blocks up to step_ms but never past
\* T0 + timeout_ms (unless timeout_ms = 0); afterwards up to step_ms.
PopDeadline(t, s, tmo, t0, empty) ==
  IF empty /\ tmo # 0 THEN Min(t + s, t0 + tmo) ELSE t + s

\* stop_event.is_set(), for a stop_event that is not None
StopIsSet == stop_event = "set"

\* step 3 without the debounce rule (b)
AfterEventNoDebounce(t, fet, d, tmo, t0) ==
  IF StopIsSet THEN "stop"
  ELSE IF tmo # 0 /\ t >= t0 + tmo THEN "changes"
  ELSE "continue"

\* step 3 with stop_event looked at after the delivery rules
AfterEventStopLast(t, fet, d, tmo, t0) ==
  IF t - fet >= d THEN "changes"
  ELSE IF tmo # 0 /\ t >= t0 + tmo THEN "changes"
  ELSE IF StopIsSet THEN "stop"
  ELSE "continue"

\* section 4.5 step 3, after an event was popped at time t: (c) stop,
\* (b) the debounce rule, (d) the session timeout, or pop again
AfterEvent(t, fet, d, tmo, t0) ==
  IF StopIsSet THEN "stop"
  ELSE IF t - fet >= d THEN "changes"
  ELSE IF tmo # 0 /\ t >= t0 + tmo THEN "changes"
  ELSE "continue"

\* the timeout looked at before the accumulator (not in an else clause)
AfterQuietTimeoutFirst(t, accumulated, tmo, t0) ==
  IF StopIsSet THEN "stop"
  ELSE IF tmo # 0 /\ t >= t0 + tmo THEN "timeout"
  ELSE IF accumulated THEN "changes"
  ELSE "continue"

\* a timeout measured without adding timeout_ms to T0
AfterQuietTimeoutEarly(t, accumulated, tmo, t0) ==
  IF StopIsSet THEN "stop"
  ELSE IF accumulated THEN "changes"
  ELSE IF tmo # 0 /\ t >= t0 THEN "timeout"
  ELSE "continue"

\* section 4.5 steps 3 (a), (c), 4 and 5, after a pop timed out at time t
AfterQuiet(t, accumulated, tmo, t0) ==
  IF StopIsSet THEN "stop"
  ELSE IF accumulated THEN "changes"
  ELSE IF tmo # 0 /\ t >= t0 + tmo THEN "timeout"
  ELSE "continue"

\* the facades are not part of a debouncer run
facadeIdle ==
  /\ mode = "watch"
  /\ watch_filter = "None"
  /\ raise_interrupt = TRUE
  /\ pc = "call"
  /\ exc = "none"
  /\ raw_changes = NoOutcome
  /\ changes = {}
  /\ watch_count = 0
  /\ n_yield = 0
  /\ stop_event_set = FALSE
  /\ interrupted = FALSE
  /\ cancelled = FALSE
  /\ set_during_call = FALSE

\* a session right after RustNotify(...), with the stop capability its calls
\* are given: None, an event not set, or an event already set
InitSession ==
  /\ now = 0
  /\ channel = <<>>
  /\ stop_event \in {"None", "unset", "set"}
  /\ dpc = "idle"
  /\ debounce_ms = 0 /\ step_ms = 0 /\ timeout_ms = 0
  /\ T0 = 0
  /\ first_event_time = -1
  /\ last_event_time = -1
  /\ deadline = 0
  /\ acc = {}
  /\ outcome = NoOutcome
  /\ ret_time = 0
  /\ ret_how = "none"
  /\ hist = [pushed |-> 0, dropped |-> 0, inacc |-> 0, delivered |-> 0,
             discarded |-> 0, calls |-> 0,
             stop_time |-> IF stop_event = "set" THEN 0 ELSE -1,
             ret_stop |-> FALSE, taken |-> {}, error |-> "none", failed |-> 0]
  /\ closed = FALSE
  /\ n_close = 0

\* a debouncer run: the facades, the polling watcher and the translation of
\* file-system operations are not part of it
InitDebounce ==
  /\ facadeIdle
  /\ InitSession
  /\ InitPollIdle
  /\ InitNativeIdle
  /\ InitRunIdle
  /\ InitPureIdle

\* the backend thread publishes a raw event
Push ==
  /\ ~closed
  /\ hist.pushed < MaxEvents
  /\ \E e \in BackendEvents :
       /\ channel' = Enqueue(channel, e)
       /\ hist' = [hist EXCEPT !.pushed = @ + 1,
                     !.dropped = @ + (Len(channel) + 1 - Len(channel'))]
  /\ UNCHANGED <<now, stop_event, dpc, debounce_ms, step_ms, timeout_ms, T0,
                 first_event_time, last_event_time, deadline, acc, outcome,
                 ret_time, ret_how>>
  /\ UNCHANGED <<closed, n_close>>
  /\ UNCHANGED <<facadeVars, pollVars, nativeVars, pureVars, runVars>>

\* the owner of the stop capability sets it
SetStop ==
  /\ stop_event = "unset"
  /\ stop_event' = "set"
  /\ hist' = [hist EXCEPT !.stop_time = now]
  /\ UNCHANGED <<now, channel, dpc, debounce_ms, step_ms, timeout_ms, T0,
                 first_event_time, last_event_time, deadline, acc, outcome,
                 ret_time, ret_how>>
  /\ UNCHANGED <<closed, n_close>>
  /\ UNCHANGED <<facadeVars, pollVars, nativeVars, pureVars, runVars>>

\* time passes during a call; the blocked pop wakes as soon as an event is
\* queued and no later than its deadline. (The clock is read only by a
\* running call, so time between two calls is not counted.)
Tick ==
  /\ now < MaxTime
  /\ dpc = "wait"
  /\ channel = <<>>
  /\ now < deadline
  /\ now' = now + 1
  /\ UNCHANGED <<channel, stop_event, dpc, debounce_ms, step_ms, timeout_ms,
                 T0, first_event_time, last_event_time, deadline, acc,
                 outcome, ret_time, ret_how, hist>>
  /\ UNCHANGED <<closed, n_close>>
  /\ UNCHANGED <<facadeVars, pollVars, nativeVars, pureVars, runVars>>

\* section 4.5 step 1: watch is called; T0 is recorded and the first pop starts
StartWatch ==
  /\ dpc = "idle"
  /\ ~closed
  /\ hist.calls < MaxWatchCalls
  /\ \E a \in Arguments :
       /\ debounce_ms' = a[1]
       /\ step_ms' = a[2]
       /\ timeout_ms' = a[3]
       /\ deadline' = PopDeadline(now, a[2], a[3], now, TRUE)
  /\ dpc' = "wait"
  /\ T0' = now
  /\ first_event_time' = -1
  /\ last_event_time' = -1
  /\ acc' = {}
  /\ outcome' = NoOutcome
  /\ ret_how' = "none"
  /\ hist' = [hist EXCEPT !.calls = @ + 1, !.inacc = 0, !.taken = {},
                          !.ret_stop = FALSE, !.error = "none"]
  /\ UNCHANGED <<now, channel, stop_event, ret_time>>
  /\ UNCHANGED <<closed, n_close>>
  /\ UNCHANGED <<facadeVars, pollVars, nativeVars, pureVars, runVars>>

\* the call ends with decision dec ("stop", "changes" or "timeout") over the
\* accumulator a, n raw events having been taken from the channel
Return(dec, a, n, how) ==
  /\ dpc' = "idle"
  /\ outcome' = IF dec = "changes" THEN ChangesOutcome(a) ELSE TokenOutcome(dec)
  /\ ret_time' = now
  /\ ret_how' = how
  /\ hist' = [hist EXCEPT
       !.inacc = 0,
       !.delivered = IF dec = "changes" THEN @ + n ELSE @,
       !.discarded = IF dec = "changes" THEN @ ELSE @ + n,
       !.ret_stop = StopIsSet,
       !.taken = IF how = "event" THEN @ \cup {Head(channel)} ELSE @]
  /\ deadline' = deadline

\* a pop returns an event: section 4.5 step 3
PopEvent ==
  /\ dpc = "wait"
  /\ channel # <<>>
  /\ LET e == Head(channel)
         a == Accumulate(acc, e)
         fet == IF first_event_time = -1 THEN now ELSE first_event_time
         dec == AfterEvent(now, fet, debounce_ms, timeout_ms, T0)
     IN /\ channel' = Tail(channel)
        /\ acc' = a
        /\ first_event_time' = fet
        /\ last_event_time' = now
        /\ IF dec = "continue"
             THEN /\ deadline' = PopDeadline(now, step_ms, timeout_ms, T0, FALSE)
                  /\ hist' = [hist EXCEPT !.inacc = @ + 1, !.taken = @ \cup {e}]
                  /\ UNCHANGED <<dpc, outcome, ret_time, ret_how>>
             ELSE Return(dec, a, hist.inacc + 1, "event")
  /\ UNCHANGED <<now, stop_event, debounce_ms, step_ms, timeout_ms, T0>>
  /\ UNCHANGED <<closed, n_close>>
  /\ UNCHANGED <<facadeVars, pollVars, nativeVars, pureVars, runVars>>

\* a pop times out: section 4.5 steps 3 (a), 4, 5
PopTimeout ==
  /\ dpc = "wait"
  /\ channel = <<>>
  /\ now = deadline
  /\ LET dec == AfterQuiet(now, acc # {}, timeout_ms, T0)
     IN IF dec = "continue"
          THEN /\ deadline' = PopDeadline(now, step_ms, timeout_ms, T0, acc = {})
               /\ UNCHANGED <<dpc, outcome, ret_time, ret_how, hist>>
          ELSE Return(dec, acc, hist.inacc, "quiet")
  /\ UNCHANGED <<now, channel, stop_event, debounce_ms, step_ms, timeout_ms,
                 T0, first_event_time, last_event_time, acc>>
  /\ UNCHANGED <<closed, n_close>>
  /\ UNCHANGED <<facadeVars, pollVars, nativeVars, pureVars, runVars>>

\* a close() that reopens a session already closed
ClosedAfterCloseToggles(c) == ~c

\* RustNotify.close(): the closed flag after the call, whatever it was
ClosedAfterClose(c) == TRUE

\* close() is called on the session between two watch calls; it releases the
\* backend (no raw event is published afterwards) and raises nothing
Close ==
  /\ dpc = "idle"
  /\ n_close < MaxCloses
  /\ closed' = ClosedAfterClose(closed)
  /\ n_close' = n_close + 1
  /\ UNCHANGED <<now, channel, stop_event, dpc, debounce_ms, step_ms,
                 timeout_ms, T0, first_event_time, last_event_time, deadline,
                 acc, outcome, ret_time, ret_how, hist>>
  /\ UNCHANGED <<facadeVars, pollVars, nativeVars, pureVars, runVars>>

\* watch is called on a closed session: the call fails with WatcherClosed
\* (RuntimeError 'RustNotify watcher closed') and returns no outcome
WatchClosed ==
  /\ dpc = "idle"
  /\ closed
  /\ hist.calls + hist.failed < MaxWatchCalls
  /\ hist' = [hist EXCEPT !.error = "WatcherClosed", !.failed = @ + 1]
  /\ UNCHANGED <<now, channel, stop_event, dpc, debounce_ms, step_ms,
                 timeout_ms, T0, first_event_time, last_event_time, deadline,
                 acc, outcome, ret_time, ret_how, closed, n_close>>
  /\ UNCHANGED <<facadeVars, pollVars, nativeVars, pureVars, runVars>>

NextDebounce ==
  \/ Push
  \/ SetStop
  \/ Tick
  \/ StartWatch
  \/ PopEvent
  \/ PopTimeout
  \/ Close
  \/ WatchClosed

SpecDebounce == InitDebounce /\ [][NextDebounce]_vars

\* ----------------------------------------------- properties of the debouncer
\* a watch call has been made and has returned
Returned == dpc = "idle" /\ hist.calls > 0

\* every raw event pushed so far is in a delivered batch, in the accumulator
\* of the running call, or still queued
NoEventLost ==
  hist.pushed = hist.delivered + hist.inacc + Len(channel)

\* a delivered batch is the set of the raw events the call took from the
\* channel: each distinct (kind, path) once
BatchIsWhatWasTaken ==
  outcome.tag = "changes" => (outcome.set = hist.taken /\ hist.taken # {})

\* C4 as claimed: at-least-once delivery. No raw event the backend produces
\* is ever lost, also when the event channel overflows; the next delivered
\* batch holds each distinct one exactly once.
C4_NoEventLost == NoEventLost /\ BatchIsWhatWasTaken

\* C4 as amended: a raw event is lost only when the full channel drops it as
\* its oldest entry, or when the call that took it returns Stop; every other
\* raw event is delivered, accumulated or queued, and a delivered batch holds
\* each distinct raw event the call took exactly once.
C4_LostOnlyByOverflowOrStop ==
  /\ [](/\ hist.pushed = hist.delivered + hist.inacc + Len(channel)
                           + hist.dropped + hist.discarded
        /\ BatchIsWhatWasTaken)
  /\ [][/\ hist'.dropped # hist.dropped =>
             (Len(channel) = ChanCap /\ hist'.dropped = hist.dropped + 1)
        /\ hist'.discarded # hist.discarded => outcome'.tag = "stop"]_vars

\* the channel overflowed once, and the call then delivered the two queued
\* occurrences of the same raw event as one record
C4_Witness ==
  /\ Returned
  /\ outcome.tag = "changes"
  /\ hist.dropped = 1
  /\ hist.delivered = 2
  /\ Cardinality(outcome.set) = 1

\* a call with events accumulated is never blocked for longer than step_ms
\* after the last event
QuietStepEndsWait ==
  (dpc = "wait" /\ hist.taken # {}) => now <= last_event_time + step_ms

\* C5 as claimed: step quiescence. Once an event has been accumulated and no
\* further event arrives for step_ms, the call delivers Changes with the
\* accumulated events.
C5_QuietStepDelivers ==
  /\ QuietStepEndsWait
  /\ (Returned /\ ret_how = "quiet" /\ hist.taken # {}) =>
       /\ ret_time = last_event_time + step_ms
       /\ outcome = ChangesOutcome(hist.taken)

\* C5 as amended: ... the call delivers Changes with the accumulated events,
\* unless stop_event is set by then, in which case it returns Stop.
C5_QuietStepDeliversUnlessStopped ==
  /\ QuietStepEndsWait
  /\ (Returned /\ ret_how = "quiet" /\ hist.taken # {}) =>
       /\ ret_time = last_event_time + step_ms
       /\ outcome = IF hist.ret_stop THEN TokenOutcome("stop")
                                     ELSE ChangesOutcome(hist.taken)

\* two distinct events were accumulated, a quiet step followed before the
\* debounce bound, and the call delivered both
C5_Witness ==
  /\ Returned
  /\ ret_how = "quiet"
  /\ ~hist.ret_stop
  /\ outcome.tag = "changes"
  /\ Cardinality(outcome.set) = 2
  /\ ret_time - first_event_time < debounce_ms

\* a call with events accumulated is never blocked later than
\* debounce_ms + step_ms after its first event
DebounceEndsWait ==
  (dpc = "wait" /\ hist.taken # {}) =>
     now <= first_event_time + debounce_ms + step_ms

\* C6 as claimed: debounce bound. Also when events keep arriving, the call
\* delivers Changes no later than debounce_ms + step_ms after the first event.
C6_DebounceBound ==
  /\ DebounceEndsWait
  /\ (Returned /\ hist.taken # {}) =>
       /\ ret_time <= first_event_time + debounce_ms + step_ms
       /\ outcome = ChangesOutcome(hist.taken)

\* C6 as amended: ... the call delivers Changes, or returns Stop when
\* stop_event is set, no later than debounce_ms + step_ms after the first
\* event.
C6_DebounceBoundUnlessStopped ==
  /\ DebounceEndsWait
  /\ (Returned /\ hist.taken # {}) =>
       /\ ret_time <= first_event_time + debounce_ms + step_ms
       /\ outcome = IF hist.ret_stop THEN TokenOutcome("stop")
                                     ELSE ChangesOutcome(hist.taken)

\* events arrived one per step_ms without a quiet step, and the debounce rule
\* ended the call debounce_ms after the first one
C6_Witness ==
  /\ Returned
  /\ ret_how = "event"
  /\ outcome.tag = "changes"
  /\ debounce_ms > step_ms
  /\ timeout_ms = 3
  /\ ret_time = first_event_time + debounce_ms
  /\ hist.delivered = 3

\* C7: a call returns Timeout only when it accumulated no event; once an
\* event is accumulated the call returns Changes containing it, or Stop, also
\* when timeout_ms has elapsed before the step or debounce rule fires.
C7_TimeoutOnlyWhenEmpty ==
  Returned =>
    /\ outcome.tag = "timeout" => hist.taken = {}
    /\ hist.taken # {} =>
         \/ outcome.tag = "changes" /\ hist.taken \subseteq outcome.set
         \/ outcome.tag = "stop"

\* timeout_ms elapsed after the first event and before the quiet step; the
\* call still returned the event
C7_Witness ==
  /\ Returned
  /\ outcome.tag = "changes"
  /\ ret_how = "quiet"
  /\ timeout_ms # 0
  /\ first_event_time < T0 + timeout_ms
  /\ ret_time > T0 + timeout_ms

\* C8: timeout correctness. With no raw event, stop_event absent or not set
\* and timeout_ms > 0, the call returns Timeout, not before timeout_ms and
\* not later than timeout_ms + step_ms after it started.
C8_TimeoutCorrectness ==
  /\ (/\ dpc = "wait"
      /\ hist.taken = {}
      /\ channel = <<>>
      /\ ~StopIsSet
      /\ timeout_ms > 0) => now <= T0 + timeout_ms + step_ms
  /\ (Returned /\ hist.taken = {} /\ ~hist.ret_stop /\ timeout_ms > 0) =>
       /\ outcome = TokenOutcome("timeout")
       /\ ret_time >= T0 + timeout_ms
       /\ ret_time <= T0 + timeout_ms + step_ms

\* a call given an event that is never set returned Timeout after several
\* empty pops
C8_Witness ==
  /\ Returned
  /\ outcome.tag = "timeout"
  /\ stop_event = "unset"
  /\ timeout_ms > step_ms
  /\ ret_time = T0 + timeout_ms

\* C9: stop correctness. If stop_event is set when watch is called, or
\* becomes set during the call, the call returns Stop within step_ms, with
\* or without events accumulated, and before any delivery condition that has
\* not fired yet.
C9_StopCorrectness ==
  /\ (dpc = "wait" /\ StopIsSet) =>
       now <= Max(T0, hist.stop_time) + step_ms
  /\ (Returned /\ hist.ret_stop) =>
       /\ outcome = TokenOutcome("stop")
       /\ ret_time <= Max(T0, hist.stop_time) + step_ms

\* stop_event became set during a call that had accumulated an event, and
\* the call returned Stop
C9_Witness ==
  /\ Returned
  /\ outcome.tag = "stop"
  /\ hist.taken # {}
  /\ hist.stop_time > first_event_time
  /\ first_event_time >= T0

\* ===================================================== the polling watcher
\* AllWatcher of src/watchgod/watcher.py over a tree of plain files.

\* the values of st_mtime; 0 is the epoch
Mtimes == 0 .. MaxMtime

\* the states of the tree, and the values of a dict path -> mtime, with
\* Absent for a path that is no key
Snapshots == [PollPaths -> Mtimes \cup {Absent}]

\* dict.keys()
Keys(d) == {p \in PollPaths : d[p] # Absent}

\* `not old_mtime` for old_mtime = self.files.get(path): true for None and
\* for the float 0.0
NotOldMtime(old_mtime) == old_mtime = Absent \/ old_mtime = 0

\* a _watch_file whose second test is an `if` of its own, not an `elif`
WatchFileNoElif(old_files, path, mtime) ==
  (IF NotOldMtime(old_files[path]) THEN {<<"added", path>>} ELSE {})
    \cup (IF old_files[path] # mtime THEN {<<"modified", path>>} ELSE {})

\* _watch_file(path, changes, new_files, stat): what it adds to changes
WatchFile(old_files, path, mtime) ==
  IF NotOldMtime(old_files[path]) THEN {<<"added", path>>}
  ELSE IF old_files[path] # mtime THEN {<<"modified", path>>}
  ELSE {}

\* the OSError subclasses os.scandir and os.stat raise during a walk
OSErrors == {"FileNotFoundError", "PermissionError"}

\* what a walk ends with: "none", or the error it raised
WalkErrors == {"none"} \cup OSErrors

\* _walk(self.root_path, changes, new_files): new_files after a walk of the
\* tree fs that reached the paths in visited; AllWatcher watches every
\* directory and every file, so a walk that raises nothing reaches them all
Walk(fs, visited) == [p \in PollPaths |-> IF p \in visited THEN fs[p] ELSE Absent]

\* an except clause that lets every error but FileNotFoundError through
CheckCatchesNotFoundOnly(e) == e = "FileNotFoundError"

\* `except OSError as e:` in check()
CheckCatches(e) == e \in OSErrors

\* a check() that does not look for deleted paths
CheckChangesNoDeleted(old_files, new_files) ==
  UNION {WatchFile(old_files, p, new_files[p]) : p \in Keys(new_files)}

\* check(): the changes it returns for the stored snapshot old_files and
\* the new_files its walk collected
CheckChanges(old_files, new_files) ==
  LET deleted == Keys(old_files) \ Keys(new_files)
  IN UNION {WatchFile(old_files, p, new_files[p]) : p \in Keys(new_files)}
       \cup {<<"deleted", entry>> : entry \in deleted}

\* a walk of the tree: the error e it ends with and the paths it reached
WalkOutcome(e, visited) ==
  /\ e \in WalkErrors
  /\ visited \in SUBSET Keys(pfs)
  /\ e = "none" => visited = Keys(pfs)
  /\ e # "none" => phist.n_log < MaxWalkErrors

\* specification section 4.2, event mapping: the record a native watcher
\* publishes for an operation on path p
NativeRecord(op, p) ==
  CASE op = "create" -> <<"added", p>>
    [] op = "modify" -> <<"modified", p>>
    [] op = "delete" -> <<"deleted", p>>

\* a tree that exists before AllWatcher(root_path) is called
InitPoll ==
  /\ facadeIdle
  /\ InitDebounceIdle
  /\ InitNativeIdle
  /\ InitRunIdle
  /\ InitPureIdle
  /\ pfs \in Snapshots
  /\ files = [p \in PollPaths |-> Absent]
  /\ check_result = {}
  /\ poll_pc = "new"
  /\ n_checks = 0
  /\ n_ops = 0
  /\ stayed = {}
  /\ phist = [walk_err |-> "none", exc |-> "none", n_log |-> 0, baseline |-> {},
              poll_union |-> {}, native_union |-> {}]

\* AllWatcher.__init__: self.files = {} and a first check(), whose result
\* is dropped
Construct ==
  /\ poll_pc = "new"
  /\ poll_pc' = "ready"
  /\ \E e \in WalkErrors, visited \in SUBSET PollPaths :
       /\ WalkOutcome(e, visited)
       /\ IF e # "none" /\ ~CheckCatches(e)
            THEN /\ phist' = [phist EXCEPT !.walk_err = "OSError", !.exc = e,
                                           !.baseline = Keys(pfs)]
                 /\ UNCHANGED files
            ELSE /\ phist' = [phist EXCEPT
                        !.walk_err = IF e # "none" THEN "OSError" ELSE "none",
                        !.exc = "none",
                        !.n_log = IF e # "none" THEN @ + 1 ELSE @,
                        !.baseline = Keys(pfs)]
                 /\ files' = Walk(pfs, visited)
       /\ stayed' = visited
  /\ UNCHANGED <<pfs, check_result, n_checks, n_ops>>
  /\ UNCHANGED <<facadeVars, debounceVars, nativeVars, pureVars, runVars>>

\* watcher.check()
Check ==
  /\ poll_pc = "ready"
  /\ n_checks < MaxChecks
  /\ \E e \in WalkErrors, visited \in SUBSET PollPaths :
       /\ WalkOutcome(e, visited)
       /\ IF e # "none" /\ ~CheckCatches(e)
            THEN /\ phist' = [phist EXCEPT !.walk_err = "OSError", !.exc = e]
                 /\ UNCHANGED <<files, check_result>>
            ELSE LET new_files == Walk(pfs, visited)
                     changes_ == CheckChanges(files, new_files)
                 IN /\ phist' = [phist EXCEPT
                           !.walk_err = IF e # "none" THEN "OSError" ELSE "none",
                           !.exc = "none",
                           !.n_log = IF e # "none" THEN @ + 1 ELSE @,
                           !.poll_union = @ \cup changes_]
                    /\ check_result' = changes_
                    /\ files' = new_files
  /\ n_checks' = n_checks + 1
  /\ UNCHANGED <<pfs, poll_pc, n_ops, stayed>>
  /\ UNCHANGED <<facadeVars, debounceVars, nativeVars, pureVars, runVars>>

\* a file is created under the root
FsCreate ==
  /\ poll_pc = "ready"
  /\ n_ops < MaxOps
  /\ \E p \in PollPaths, m \in Mtimes :
       /\ pfs[p] = Absent
       /\ pfs' = [pfs EXCEPT ![p] = m]
       /\ phist' = [phist EXCEPT !.native_union = @ \cup {NativeRecord("create", p)}]
  /\ n_ops' = n_ops + 1
  /\ UNCHANGED <<files, check_result, poll_pc, n_checks, stayed>>
  /\ UNCHANGED <<facadeVars, debounceVars, nativeVars, pureVars, runVars>>

\* a file is written, or touched: its st_mtime changes
FsModify ==
  /\ poll_pc = "ready"
  /\ n_ops < MaxOps
  /\ \E p \in PollPaths, m \in Mtimes :
       /\ pfs[p] # Absent
       /\ pfs[p] # m
       /\ pfs' = [pfs EXCEPT ![p] = m]
       /\ phist' = [phist EXCEPT !.native_union = @ \cup {NativeRecord("modify", p)}]
  /\ n_ops' = n_ops + 1
  /\ UNCHANGED <<files, check_result, poll_pc, n_checks, stayed>>
  /\ UNCHANGED <<facadeVars, debounceVars, nativeVars, pureVars, runVars>>

\* a file is removed
FsDelete ==
  /\ poll_pc = "ready"
  /\ n_ops < MaxOps
  /\ \E p \in PollPaths :
       /\ pfs[p] # Absent
       /\ pfs' = [pfs EXCEPT ![p] = Absent]
       /\ stayed' = stayed \ {p}
       /\ phist' = [phist EXCEPT !.native_union = @ \cup {NativeRecord("delete", p)}]
  /\ n_ops' = n_ops + 1
  /\ UNCHANGED <<files, check_result, poll_pc, n_checks>>
  /\ UNCHANGED <<facadeVars, debounceVars, nativeVars, pureVars, runVars>>

NextPoll ==
  \/ Construct
  \/ Check
  \/ FsCreate
  \/ FsModify
  \/ FsDelete

SpecPoll == InitPoll /\ [][NextPoll]_vars

\* ------------------------------------- properties of the polling watcher
\* the difference of two snapshots: added for a path only in the new one,
\* modified for a path in both whose mtime differs, deleted for a path only
\* in the previous one
SnapshotDiff(old, new) ==
  {<<"added", p>> : p \in Keys(new) \ Keys(old)}
    \cup {<<"modified", p>> : p \in {q \in Keys(new) \cap Keys(old) : old[q] # new[q]}}
    \cup {<<"deleted", p>> : p \in Keys(old) \ Keys(new)}

\* C19: polling diff exactness. Each check() (whose walk met no error)
\* returns exactly the difference of the previous snapshot and the tree as it
\* is now, and afterwards the stored snapshot is the new one.
C19_PollingDiffExact ==
  [][(n_checks' # n_checks /\ phist'.walk_err = "none") =>
       (/\ check_result' = SnapshotDiff(files, pfs)
        /\ files' = pfs)]_vars

\* C20: polling baseline. With no walk failing, a path present when the
\* watcher was constructed (and ever since) is never reported as added by a
\* later check, and a check() made with no change of the tree since the
\* previous check returns the empty set.
C20_PollingBaseline ==
  /\ [](phist.n_log = 0 => \A p \in stayed : <<"added", p>> \notin check_result)
  /\ [][(n_checks' # n_checks /\ phist'.walk_err = "none" /\ pfs = files)
          => check_result' = {}]_vars

\* a step in which check() ran: the one of __init__, or a later one
CheckRan == n_checks' # n_checks \/ poll_pc' # poll_pc

Sampled ==
  /\ poll_pc = "ready"
  /\ n_checks > 0
  /\ files = pfs
  /\ phist.n_log = 0
  /\ phist.exc = "none"

C37_DeletedOnlyGone ==
  [][(n_checks' # n_checks /\ phist'.exc = "none") =>
       \A p \in PollPaths :
         <<"deleted", p>> \in check_result' =>
           (files[p] # Absent /\ pfs[p] = Absent)]_vars

\* C38: in the set returned by one check() each path appears with at most
\* one change kind: added, modified and deleted exclude each other per path.
C38_OneKindPerPath ==
  \A p \in PollPaths : Cardinality({r \in check_result : r[2] = p}) <= 1

\* one check() returned a modified record for one path and a deleted record
\* for the other
C38_Witness ==
  /\ n_checks > 0
  /\ check_result = {<<"modified", "a.txt">>, <<"deleted", "b.py">>}

\* C14: idempotent close. close() may be called any number of times on a
\* session without error, and every watch call made after the first close
\* fails with WatcherClosed instead of returning an outcome.
C14_IdempotentClose ==
  /\ [](n_close > 0 => (closed /\ dpc = "idle"))
  /\ [][n_close' # n_close =>
         (closed' /\ hist' = hist /\ outcome' = outcome /\ channel' = channel)]_vars
  /\ [][n_close > 0 =>
         (/\ hist'.calls = hist.calls
          /\ outcome' = outcome
          /\ hist'.failed # hist.failed => hist'.error = "WatcherClosed")]_vars
  /\ [][hist'.failed # hist.failed => n_close > 0]_vars

\* a session that had delivered a batch was closed twice, and the watch
\* call made afterwards failed with WatcherClosed
C14_Witness ==
  /\ n_close = 2
  /\ closed
  /\ hist.calls > 0
  /\ outcome.tag = "changes"
  /\ hist.failed > 0
  /\ hist.error = "WatcherClosed"

\* ======================================================= the native watcher
\* RustNotify(watch_paths, debug, force_polling, poll_delay_ms, recursive,
\* ignore_permission_denied) with the native backend, after specification
\* section 4.2: the backend thread translates file-system operations into raw
\* events and publishes them to the event channel of the debouncer above.
\* A path is the sequence of its components.

\* the watch_paths of the session (foo and bar of test_watch_multiple)
NativeRoots == {<<"foo">>, <<"bar">>}

\* the files created during a run: a direct child of a root, a file of a
\* sub-directory of a root, and a file under no root
OsCreates ==
  {<<"foo", "foo.txt">>, <<"bar", "dir_a", "foo.txt">>, <<"not_included.txt">>}

\* the renames made during a run, <<source, destination>>: inside a root
\* (test_rename) and out of every root (test_move_out)
OsRenames ==
  {<<<<"foo", "a.txt">>, <<"foo", "a.new">>>>,
   <<<<"foo", "c.txt">>, <<"c.txt">>>>}

\* path p is below directory r
IsDescendant(p, r) == Len(p) > Len(r) /\ SubSeq(p, 1, Len(r)) = r

\* path p is an entry of directory r
IsDirectChild(p, r) == Len(p) = Len(r) + 1 /\ SubSeq(p, 1, Len(r)) = r

\* a watch that observes the whole tree below a root whatever `recursive` is
ObservedWholeTree(p, rec) == \E r \in NativeRoots : IsDescendant(p, r)

\* section 4.2: the watch registered for each root is recursive or not
\* according to `recursive`; non-recursive mode suppresses events whose path
\* is not a direct child of any root
Observed(p, rec) ==
  \E r \in NativeRoots : IF rec THEN IsDescendant(p, r) ELSE IsDirectChild(p, r)

\* an in-scope rename mapped as a removal and a write of the destination
RenameEventsModified(a, b) == <<<<3, a>>, <<2, b>>>>

\* section 4.2: a rename emits Deleted on the source path and Added on the
\* destination path
RenameEvents(a, b) == <<<<3, a>>, <<1, b>>>>

\* the raw events of es whose path the session observes, in order
RECURSIVE Suppress(_, _)
Suppress(es, rec) ==
  IF es = <<>> THEN <<>>
  ELSE IF Observed(Head(es)[2], rec)
         THEN <<Head(es)>> \o Suppress(Tail(es), rec)
         ELSE Suppress(Tail(es), rec)

\* the backend thread pushes the events of es one after the other
RECURSIVE EnqueueAll(_, _)
EnqueueAll(q, es) ==
  IF es = <<>> THEN q ELSE EnqueueAll(Enqueue(q, Head(es)), Tail(es))

\* the raw events es of one OS callback are published
Publish(es) ==
  /\ channel' = EnqueueAll(channel, es)
  /\ hist' = [hist EXCEPT !.pushed = @ + Len(es),
                !.dropped = @ + (Len(channel) + Len(es) - Len(channel'))]

\* a session right after RustNotify([foo, bar], ..., recursive, ...)
InitNative ==
  /\ facadeIdle
  /\ InitSession
  /\ InitPollIdle
  /\ InitRunIdle
  /\ InitPureIdle
  /\ recursive \in BOOLEAN
  /\ nhist = [renamed |-> <<>>, n_os |-> 0]

\* a file is created: creation of an entry -> Added
OsCreate ==
  /\ nhist.n_os < MaxOsOps
  /\ \E p \in OsCreates :
       /\ Publish(Suppress(<<<<1, p>>>>, recursive))
       /\ nhist' = [nhist EXCEPT !.n_os = @ + 1]
  /\ UNCHANGED <<now, stop_event, dpc, debounce_ms, step_ms, timeout_ms, T0,
                 first_event_time, last_event_time, deadline, acc, outcome,
                 ret_time, ret_how, closed, n_close, recursive>>
  /\ UNCHANGED <<facadeVars, pollVars, runVars, pureVars>>

\* a file is renamed (one rename is made in a run)
OsRename ==
  /\ nhist.n_os < MaxOsOps
  /\ nhist.renamed = <<>>
  /\ \E m \in OsRenames :
       /\ Publish(Suppress(RenameEvents(m[1], m[2]), recursive))
       /\ nhist' = [nhist EXCEPT !.n_os = @ + 1, !.renamed = m]
  /\ UNCHANGED <<now, stop_event, dpc, debounce_ms, step_ms, timeout_ms, T0,
                 first_event_time, last_event_time, deadline, acc, outcome,
                 ret_time, ret_how, closed, n_close, recursive>>
  /\ UNCHANGED <<facadeVars, pollVars, runVars, pureVars>>

NextNative ==
  \/ OsCreate
  \/ OsRename
  \/ SetStop
  \/ Tick
  \/ StartWatch
  \/ PopEvent
  \/ PopTimeout

SpecNative == InitNative /\ [][NextNative]_vars

\* ------------------------------------------ properties of the native watcher
\* the rename made in the run has both paths under one watched root
RenamedInScope ==
  /\ nhist.renamed # <<>>
  /\ Observed(nhist.renamed[1], recursive)
  /\ Observed(nhist.renamed[2], recursive)

\* the records of the rename made in the run
DeletedA == <<3, nhist.renamed[1]>>

AddedB == <<1, nhist.renamed[2]>>

\* the call that just returned delivered a batch
Delivered == Returned /\ outcome.tag = "changes"

TimeoutArguments == {<<DefaultSigintTimeout, DefaultSigkillTimeout>>, <<2, 3>>}

\* the watch_filter a run is given
RunFilters == {"None", "only_added"}

\* the raw events of the batches the backend returns during a run
RunEvents == {<<1, "foo.txt">>, <<3, "foo.txt">>, <<2, "spam.pyc">>}

\* what watcher.watch returns during a run: a batch, or a token
RunOutcomes ==
  {ChangesOutcome(S) : S \in (SUBSET RunEvents) \ {{}}}
    \cup {TokenOutcome(t) : t \in {"stop", "signal"}}

\* Change.raw_str (main.py)
RawStr(c) ==
  IF c = "added" THEN "added"
  ELSE IF c = "modified" THEN "modified"
  ELSE "deleted"

\* the elements of a set in the order its iteration gives them
RECURSIVE Listed(_)
Listed(S) ==
  IF S = {} THEN <<>>
  ELSE LET x == CHOOSE y \in S : TRUE IN <<x>> \o Listed(S \ {x})

\* a start_process that passes no batch on
ChangesEnvVarEmpty(is_none, cs) == <<>>

\* start_process, run.py lines 218 - 221: '[]' when changes is None, or
\* json.dumps([[c.raw_str(), p] for c, p in changes])
ChangesEnvVar(is_none, cs) ==
  IF is_none THEN <<>>
  ELSE LET l == Listed(cs)
       IN [i \in 1 .. Len(l) |-> <<RawStr(l[i][1]), l[i][2]>>]

\* a loop body that awaits no callback result
IsAwaitableNever(cb) == FALSE

\* inspect.isawaitable(r) for the result r of callback(changes)
IsAwaitable(cb) == cb = "coroutine"

\* a stop that sends SIGKILL whatever the exit code is
SendsSigkillAlways(exitcode_is_none) == TRUE

\* CombinedProcess.stop, run.py line 298: `if self.exitcode is None`
SendsSigkill(exitcode_is_none) == exitcode_is_none

\* CombinedProcess.join, run.py lines 318 - 322, when the process has not
\* exited after timeout: Popen.wait raises subprocess.TimeoutExpired,
\* SpawnProcess.join returns None
JoinRaises(tt) == tt = "command"

\* run_process(...) or arun_process(...) called; arun_process has no timeout
\* parameters and is the one given a coroutine as callback
InitRun ==
  /\ InitPureIdle
  /\ mode \in {"watch", "awatch"}
  /\ watch_filter \in RunFilters
  /\ raise_interrupt = (mode = "awatch")
  /\ pc = "call"
  /\ exc = "none"
  /\ raw_changes = NoOutcome
  /\ changes = {}
  /\ watch_count = 0
  /\ n_yield = 0
  /\ stop_event_set = FALSE
  /\ interrupted = FALSE
  /\ cancelled = FALSE
  /\ set_during_call = FALSE
  /\ InitDebounceIdle
  /\ InitPollIdle
  /\ InitNativeIdle
  /\ run_pc = "init"
  /\ target_type \in {"function", "command"}
  /\ callback \in (IF mode = "awatch" THEN {"sync", "coroutine"}
                                    ELSE {"None", "sync"})
  /\ \E t \in (IF mode = "awatch"
                 THEN {<<DefaultSigintTimeout, DefaultSigkillTimeout>>}
                 ELSE TimeoutArguments) :
       sigint_timeout = t[1] /\ sigkill_timeout = t[2]
  /\ child = "none"
  /\ environ = EnvUnset
  /\ reloads = 0
  /\ rhist = [started |-> 0, n_cb |-> 0, n_awaited |-> 0, child_env |-> EnvUnset,
              stops |-> 0, final |-> FALSE, signals |-> <<>>, to_int |-> 0,
              to_kill |-> 0, found |-> "none", exit_seen |-> "none",
              left_alive |-> FALSE, raised |-> FALSE, exc |-> "none",
              cb_arg |-> {}]

\* start_process(target, target_type, args, kwargs, changes): the variable is
\* set in the parent and the child, spawned next, inherits it
StartProcess(is_none, cs) ==
  /\ environ' = EnvValue(ChangesEnvVar(is_none, cs))
  /\ child' = "alive"
  /\ rhist' = [rhist EXCEPT !.started = @ + 1, !.child_env = environ']

\* run.py lines 126 - 127 and 190 - 191
RunStart ==
  /\ run_pc = "init"
  /\ StartProcess(TRUE, {})
  /\ reloads' = 0
  /\ run_pc' = "loop"
  /\ UNCHANGED <<target_type, callback, sigint_timeout, sigkill_timeout>>
  /\ UNCHANGED <<facadeVars, debounceVars, pollVars, nativeVars, pureVars>>

\* the loop asks the generator for the next batch: the facade calls
\* watcher.watch
RunCallWatch == run_pc = "loop" /\ CallWatch

\* watcher.watch returns to the facade
RunWatchReturn ==
  /\ run_pc = "loop"
  /\ WatchReturn
  /\ raw_changes' \in RunOutcomes

\* the child exits by itself while the runner waits for changes
ChildExits ==
  /\ run_pc = "loop"
  /\ pc = "waiting"
  /\ child = "alive"
  /\ child' = "dead"
  /\ UNCHANGED <<run_pc, target_type, callback, sigint_timeout,
                 sigkill_timeout, environ, reloads, rhist>>
  /\ UNCHANGED <<facadeVars, debounceVars, pollVars, nativeVars, pureVars>>

\* a batch was yielded: `callback and callback(changes)` (line 133), or
\* `r = callback(changes)` (lines 194 - 195)
RunCallback ==
  /\ run_pc = "loop"
  /\ pc = "yield"
  /\ IF callback = "None"
       THEN /\ run_pc' = "called_back"
            /\ rhist' = rhist
       ELSE /\ run_pc' = IF mode = "awatch" /\ IsAwaitable(callback)
                           THEN "await_callback" ELSE "called_back"
            /\ rhist' = [rhist EXCEPT !.n_cb = @ + 1, !.cb_arg = changes]
  /\ UNCHANGED <<target_type, callback, sigint_timeout, sigkill_timeout,
                 child, environ, reloads>>
  /\ UNCHANGED <<facadeVars, debounceVars, pollVars, nativeVars, pureVars>>

\* arun_process, lines 196 - 197: `await r`
RunAwait ==
  /\ run_pc = "await_callback"
  /\ run_pc' = "called_back"
  /\ rhist' = [rhist EXCEPT !.n_awaited = @ + 1]
  /\ UNCHANGED <<target_type, callback, sigint_timeout, sigkill_timeout,
                 child, environ, reloads>>
  /\ UNCHANGED <<facadeVars, debounceVars, pollVars, nativeVars, pureVars>>

\* the callback raises (line 133, line 195): the exception leaves the loop;
\* run_process goes to its finally clause, arun_process is left
CallbackRaises ==
  /\ run_pc = "loop"
  /\ pc = "yield"
  /\ callback # "None"
  /\ run_pc' = IF mode = "watch" THEN "final" ELSE "raised"
  /\ rhist' = [rhist EXCEPT !.n_cb = @ + 1, !.cb_arg = changes,
                            !.exc = "CallbackError"]
  /\ UNCHANGED <<target_type, callback, sigint_timeout, sigkill_timeout,
                 child, environ, reloads>>
  /\ UNCHANGED <<facadeVars, debounceVars, pollVars, nativeVars, pureVars>>

\* CombinedProcess.stop(sigint_timeout=to[1], sigkill_timeout=to[2]), lines
\* 285 - 289 and 304 - 305: the variable is removed from the parent
\* environment; a child that is alive is sent SIGINT and joined, one that is
\* not gets a warning. e is the exception pending in the caller.
StopEnter(final, to, e, next_join, next_done) ==
  /\ environ' = EnvUnset
  /\ run_pc' = IF child = "alive" THEN next_join ELSE next_done
  /\ rhist' = [rhist EXCEPT
       !.stops = @ + 1, !.final = final,
       !.signals = IF child = "alive" THEN <<"SIGINT">> ELSE <<>>,
       !.to_int = to[1], !.to_kill = to[2],
       !.found = child, !.exit_seen = "none",
       !.left_alive = FALSE, !.raised = FALSE, !.exc = e]
  /\ UNCHANGED <<target_type, callback, sigint_timeout, sigkill_timeout,
                 child, reloads>>
  /\ UNCHANGED <<facadeVars, debounceVars, pollVars, nativeVars, pureVars>>

\* CombinedProcess.stop, lines 291 - 303: join(sigint_timeout), a
\* TimeoutExpired being swallowed; then, if the exit code is still None,
\* SIGKILL and join(sigkill_timeout). The child exits within the first wait
\* or not, and after SIGKILL within the second wait or not.
StopJoin(next_done, next_raise) ==
  \E exits \in BOOLEAN, dies \in BOOLEAN :
    LET kill == SendsSigkill(~exits)
        alive_after == ~exits /\ ~(kill /\ dies)
        raises == kill /\ alive_after /\ JoinRaises(target_type)
    IN /\ exits => dies
       /\ child' = IF alive_after THEN "alive" ELSE "dead"
       /\ run_pc' = IF raises THEN next_raise ELSE next_done
       /\ rhist' = [rhist EXCEPT
            !.signals = IF kill THEN Append(@, "SIGKILL") ELSE @,
            !.exit_seen = IF exits THEN "set" ELSE "unset",
            !.left_alive = alive_after,
            !.raised = raises,
            !.exc = IF raises THEN "TimeoutExpired" ELSE @]
       /\ UNCHANGED <<target_type, callback, sigint_timeout, sigkill_timeout,
                      environ, reloads>>
       /\ UNCHANGED <<facadeVars, debounceVars, pollVars, nativeVars, pureVars>>

\* the timeouts the stop of the loop body is called with: run_process passes
\* its arguments on (line 134), arun_process calls process.stop without
\* arguments (line 199)
LoopStopTimeouts ==
  IF mode = "watch" THEN <<sigint_timeout, sigkill_timeout>>
  ELSE <<DefaultSigintTimeout, DefaultSigkillTimeout>>

\* the loop body stops the old process
StopOld ==
  /\ run_pc = "called_back"
  /\ StopEnter(FALSE, LoopStopTimeouts, "none", "stop_join", "stopped")

\* an exception of the stop leaves the loop: run_process goes to its finally
\* clause, arun_process is left
JoinOld ==
  /\ run_pc = "stop_join"
  /\ StopJoin("stopped", IF mode = "watch" THEN "final" ELSE "raised")

\* lines 135 - 136 and 200 - 201: the replacement is started with the batch,
\* reloads is incremented and the loop asks the generator for the next batch
RunRestart ==
  /\ run_pc = "stopped"
  /\ StartProcess(FALSE, changes)
  /\ reloads' = reloads + 1
  /\ run_pc' = "loop"
  /\ pc' = "call"
  /\ UNCHANGED <<mode, watch_filter, raise_interrupt, exc, raw_changes,
                 changes, watch_count, n_yield, stop_event_set, interrupted,
                 cancelled, set_during_call>>
  /\ UNCHANGED <<target_type, callback, sigint_timeout, sigkill_timeout>>
  /\ UNCHANGED <<debounceVars, pollVars, nativeVars, pureVars>>

\* an exception of awatch leaves arun_process, whose last stop (line 202) is
\* not in a finally clause
AwatchRaised ==
  /\ run_pc = "loop"
  /\ mode = "awatch"
  /\ pc = "raised"
  /\ run_pc' = "raised"
  /\ rhist' = [rhist EXCEPT !.exc = exc]
  /\ UNCHANGED <<target_type, callback, sigint_timeout, sigkill_timeout,
                 child, environ, reloads>>
  /\ UNCHANGED <<facadeVars, debounceVars, pollVars, nativeVars, pureVars>>

\* where the run ends after its last stop: with the pending exception e, or
\* with `return reloads`
RunEnd(e) == IF e = "none" THEN "returned" ELSE "raised"

\* the last stop, `process.stop()`: line 138 (the finally clause of
\* run_process, reached when the generator returned or raised, or when the
\* stop of the loop body raised), or line 202 (arun_process, after the loop)
StopLast ==
  /\ \/ run_pc = "loop" /\ pc \in {"returned", "raised"}
                          /\ ~(mode = "awatch" /\ pc = "raised")
     \/ run_pc = "final"
  /\ LET e == IF run_pc = "final" THEN rhist.exc ELSE exc
     IN StopEnter(TRUE, <<DefaultSigintTimeout, DefaultSigkillTimeout>>, e,
                  "final_join", RunEnd(e))

\* the last stop raised, or the run ends as the pending exception says
JoinLast ==
  /\ run_pc = "final_join"
  /\ StopJoin(RunEnd(rhist.exc), "raised")

NextRun ==
  \/ RunStart
  \/ RunCallWatch
  \/ RunWatchReturn
  \/ ChildExits
  \/ RunCallback
  \/ RunAwait
  \/ CallbackRaises
  \/ StopOld
  \/ JoinOld
  \/ RunRestart
  \/ AwatchRaised
  \/ StopLast
  \/ JoinLast

SpecRun == InitRun /\ [][NextRun]_vars

\* ------------------------------------------------- properties of the runner
\* the run is over: run_process / arun_process returned or raised
RunOver == run_pc \in {"returned", "raised"}

\* a stop() call has been made and is not waiting in a join
StopDone == rhist.stops > 0 /\ run_pc \notin {"stop_join", "final_join"}

\* C25 as stated: run_process returns the number of reloads, which equals the
\* number of batches yielded by watch, and over the whole run it starts
\* exactly reloads + 1 processes. (Runs in which a stop raised
\* TimeoutExpired are left aside.)
C25_ReturnsReloads ==
  (mode = "watch" /\ RunOver /\ rhist.exc # "TimeoutExpired") =>
    (/\ run_pc = "returned"
     /\ reloads = n_yield
     /\ rhist.started = reloads + 1)

\* C26: stop escalation. Stopping a child that is alive sends SIGINT first
\* and waits; SIGKILL is sent only if the exit code is still unset after
\* that wait, and never before SIGINT; stopping a child that is already dead
\* sends no signal.
C26_StopEscalation ==
  rhist.stops > 0 =>
    (/\ rhist.found = "dead" => rhist.signals = <<>>
     /\ rhist.found = "alive" =>
          (/\ rhist.signals # <<>>
           /\ rhist.signals[1] = "SIGINT"
           /\ run_pc \in {"stop_join", "final_join"} =>
                rhist.signals = <<"SIGINT">>
           /\ StopDone =>
                (/\ rhist.exit_seen = "set" => rhist.signals = <<"SIGINT">>
                 /\ rhist.exit_seen = "unset" =>
                      rhist.signals = <<"SIGINT", "SIGKILL">>
                 /\ rhist.exit_seen # "none")))

\* the old process ignored SIGINT for the whole wait and was killed
C26_Witness ==
  /\ run_pc = "stopped"
  /\ rhist.found = "alive"
  /\ rhist.exit_seen = "unset"
  /\ rhist.signals = <<"SIGINT", "SIGKILL">>
  /\ child = "dead"

\* C27 as stated: the sigint_timeout and sigkill_timeout passed to
\* run_process govern every stop of the child process performed by
\* run_process, including the final stop when watching ends: a stop that
\* finds the child alive waits with the timeouts of the run.
C27_TimeoutsGovernEveryStop ==
  (mode = "watch" /\ rhist.stops > 0 /\ rhist.found = "alive") =>
    (rhist.to_int = sigint_timeout /\ rhist.to_kill = sigkill_timeout)

\* C28 as stated: if the child process has still not exited sigkill_timeout
\* seconds after SIGKILL was sent, stop raises an exception, for function
\* targets as well as for command targets.
C28_StopRaises ==
  (StopDone /\ rhist.signals = <<"SIGINT", "SIGKILL">> /\ rhist.left_alive) =>
    rhist.raised

\* the pairs of a JSON array
Pairs(v) == {v[i] : i \in 1 .. Len(v)}

\* C29: WATCHFILES_CHANGES as seen by a spawned child is "[]" for the
\* initially started process and, for a process started by a reload, the
\* JSON array of [kind_name, path] pairs of exactly the batch that triggered
\* that reload, with kind_name in {added, modified, deleted}; stopping a
\* process removes the variable from the parent environment.
C29_ChangesVariable ==
  /\ [](rhist.started = 1 => rhist.child_env = EnvValue(<<>>))
  /\ [][(rhist'.started = rhist.started + 1 /\ rhist.started >= 1) =>
          (/\ rhist'.child_env.set
           /\ run_pc = "stopped"
           /\ pc = "yield" /\ changes # {}
           /\ Pairs(rhist'.child_env.value) = {<<c[1], c[2]>> : c \in changes}
           /\ Len(rhist'.child_env.value) = Cardinality(changes)
           /\ \A x \in Pairs(rhist'.child_env.value) :
                x[1] \in {"added", "modified", "deleted"})]_vars
  /\ [][rhist'.stops = rhist.stops + 1 => environ' = EnvUnset]_vars
  /\ [](run_pc \in {"stop_join", "stopped", "final_join", "returned"} =>
          environ = EnvUnset)

\* the old process was stopped for a second batch, of two changes: the
\* variable is gone from the parent, and the child started for the first
\* batch had got the one change of that batch
C29_Witness ==
  /\ run_pc = "stopped"
  /\ n_yield = 2
  /\ reloads = 1
  /\ Cardinality(changes) = 2
  /\ Len(rhist.child_env.value) = 1
  /\ environ = EnvUnset

\* C30: for every batch, run_process and arun_process call the callback
\* exactly once with that batch, before the old process is stopped and
\* before the replacement is started; arun_process awaits an awaitable
\* callback result before stopping the old process.
C30_CallbackPerBatch ==
  /\ [](callback # "None" =>
          \/ rhist.n_cb = n_yield /\ (n_yield > 0 => rhist.cb_arg = changes
                                                      \/ pc # "yield")
          \/ rhist.n_cb + 1 = n_yield /\ run_pc = "loop" /\ pc = "yield")
  /\ [][(callback # "None" /\ rhist'.n_cb # rhist.n_cb) =>
          (/\ rhist'.n_cb = rhist.n_cb + 1
           /\ rhist'.cb_arg = changes
           /\ pc = "yield"
           /\ rhist'.stops = rhist.stops
           /\ rhist'.started = rhist.started)]_vars
  /\ [][(callback # "None" /\ rhist'.stops # rhist.stops /\ ~rhist'.final) =>
          (/\ rhist.n_cb = n_yield
           /\ rhist.cb_arg = changes
           /\ (mode = "awatch" /\ callback = "coroutine") =>
                rhist.n_awaited = n_yield)]_vars
  /\ [][(callback # "None" /\ rhist'.started # rhist.started
           /\ rhist.started > 0) =>
          (rhist.n_cb = n_yield /\ rhist.cb_arg = changes)]_vars

\* arun_process was given a coroutine: both batches yielded so far were
\* passed to it and awaited, and the old process has been stopped twice
C30_Witness ==
  /\ mode = "awatch"
  /\ callback = "coroutine"
  /\ run_pc = "stopped"
  /\ n_yield = 2
  /\ rhist.n_cb = 2
  /\ rhist.n_awaited = 2
  /\ rhist.stops = 2
  /\ rhist.cb_arg = changes

\* C34 as stated: at every moment during run_process or arun_process at most
\* one child process started by it is alive: a replacement process is
\* started only after the stop of the previous one has returned and the
\* previous one has exited.
C34_OneChildAlive ==
  [][(rhist'.started = rhist.started + 1 /\ rhist.started >= 1) =>
       (run_pc = "stopped" /\ child = "dead")]_vars

\* C35 as stated: whenever run_process or arun_process exits, by normal end
\* of the watch sequence, by an exception raised by the callback or by a
\* KeyboardInterrupt raised from the watcher, stop has been called on the
\* most recently started child process: the last stop() made is the one
\* that follows the loop.
C35_StoppedOnExit ==
  (RunOver /\ rhist.exc \in {"none", "CallbackError", "KeyboardInterrupt"}) =>
    (rhist.stops > 0 /\ rhist.final)

\* ------------------------------------------------- awatch: batch and stop
\* C36: a batch returned by the worker's watch call is not discarded by awatch
\* because an interrupt or a stop request arrived while the call was running:
\* when the call returns changes, awatch yields them if they are non-empty
\* after filtering (and goes on to the next call if they are empty), whatever
\* stop_event_ and interrupted are; and a watch call made with stop_event_
\* already set ends awatch.
C36_BatchNotDiscarded ==
  [][(mode = "awatch" /\ pc = "waiting" /\ ~cancelled /\ pc' # "waiting") =>
       /\ raw_changes'.tag = "changes" =>
            LET cs == PrepChanges(raw_changes'.set, watch_filter)
            IN IF cs # {}
                 THEN pc' = "yield" /\ changes' = cs /\ n_yield' = n_yield + 1
                 ELSE pc' = "call"
       /\ (stop_event_set /\ ~set_during_call) =>
            pc' \in {"raised", "returned"}]_vars

\* a batch is yielded although SIGINT set the event while the call ran
C36_Witness ==
  /\ mode = "awatch"
  /\ pc = "yield"
  /\ stop_event_set
  /\ interrupted
  /\ set_during_call
  /\ raw_changes.tag = "changes"
  /\ changes # {}

\* ============================================== the choice of the backend
\* _default_force_polling(force_polling) of watchfiles.main, which
\* tests/test_force_polling.py imports and calls; a str is the sequence of
\* its characters.

UpperCase ==
  <<"A", "B", "C", "D", "E", "F", "G", "H", "I", "J", "K", "L", "M", "N", "O",
    "P", "Q", "R", "S", "T", "U", "V", "W", "X", "Y", "Z">>

LowerCase ==
  <<"a", "b", "c", "d", "e", "f", "g", "h", "i", "j", "k", "l", "m", "n", "o",
    "p", "q", "r", "s", "t", "u", "v", "w", "x", "y", "z">>

\* str.lower() of one character
LowerChar(c) ==
  IF \E i \in DOMAIN UpperCase : UpperCase[i] = c
    THEN LowerCase[CHOOSE i \in DOMAIN UpperCase : UpperCase[i] = c]
    ELSE c

\* s.lower()
Lower(s) == [i \in DOMAIN s |-> LowerChar(s[i])]

\* `sub in s` for two str
Contains(s, sub) ==
  \E i \in 0 .. (Len(s) - Len(sub)) : SubSeq(s, i + 1, i + Len(sub)) = sub

\* the strings of the environment, of platform.uname() and of the rules
S_1 == <<"1">>

S_0 == <<"0">>

S_true == <<"t", "r", "u", "e">>

S_false == <<"f", "a", "l", "s", "e">>

S_False == <<"F", "a", "l", "s", "e">>

S_disable == <<"d", "i", "s", "a", "b", "l", "e">>

S_DISABLE == <<"D", "I", "S", "A", "B", "L", "E">>

S_disabled == <<"d", "i", "s", "a", "b", "l", "e", "d">>

S_Disabled == <<"D", "i", "s", "a", "b", "l", "e", "d">>

S_disabledx == <<"d", "i", "s", "a", "b", "l", "e", "d", "x">>

S_Linux == <<"L", "i", "n", "u", "x">>

S_linux == <<"l", "i", "n", "u", "x">>

S_Darwin == <<"D", "a", "r", "w", "i", "n">>

S_microsoft_standard ==
  <<"m", "i", "c", "r", "o", "s", "o", "f", "t", "-", "s", "t", "a", "n",
    "d", "a", "r", "d">>

S_Microsoft_Standard ==
  <<"M", "i", "c", "r", "o", "s", "o", "f", "t", "-", "S", "t", "a", "n",
    "d", "a", "r", "d">>

S_wsl2 ==
  <<"5", ".", "1", "5", "-", "m", "i", "c", "r", "o", "s", "o", "f", "t",
    "-", "s", "t", "a", "n", "d", "a", "r", "d", "-", "W", "S", "L", "2">>

S_wsl1 ==
  <<"4", ".", "4", ".", "0", "-", "M", "i", "c", "r", "o", "s", "o", "f",
    "t">>

\* the values WATCHFILES_FORCE_POLLING is given
EnvForceValues ==
  {<<>>, S_1, S_0, S_true, S_false, S_False, S_disable, S_DISABLE, S_disabled,
   S_Disabled, S_disabledx}

\* platform.uname().system and .release
UnameSystems == {S_Linux, S_Darwin}

UnameReleases == {S_1, S_Microsoft_Standard, S_wsl2, S_wsl1}

\* the words that disable the override
DisableWords == {S_false, S_disable, S_disabled}

\* the hook auto_force_polling: a Linux kernel whose release holds the WSL
\* signature, in either case
AutoForcePolling(un) ==
  /\ Contains(Lower(un.release), S_microsoft_standard)
  /\ Lower(un.system) = S_linux

\* a selection that reads the environment before the argument
DefaultForcePollingEnvFirst(arg, env, un) ==
  IF env.set /\ env.value # <<>>
    THEN [value |-> Lower(env.value) \notin DisableWords, uname_calls |-> 0]
    ELSE IF arg # "None"
           THEN [value |-> arg = "True", uname_calls |-> 0]
           ELSE [value |-> AutoForcePolling(un), uname_calls |-> 1]

\* _default_force_polling(force_polling): the argument if one is given, else
\* the override of the environment if it is set and not empty, else the hook
DefaultForcePolling(arg, env, un) ==
  IF arg # "None"
    THEN [value |-> arg = "True", uname_calls |-> 0]
    ELSE IF env.set /\ env.value # <<>>
           THEN [value |-> Lower(env.value) \notin DisableWords,
                 uname_calls |-> 0]
           ELSE [value |-> AutoForcePolling(un), uname_calls |-> 1]

\* the argument, the environment and the platform of one call
InitSelect ==
  /\ facadeIdle
  /\ InitDebounceIdle
  /\ InitPollIdle
  /\ InitNativeIdle
  /\ InitRunIdle
  /\ InitFilterIdle
  /\ InitCliIdle
  /\ sel_pc = "args"
  /\ force_polling \in {"None", "True", "False"}
  /\ env_force_polling \in {EnvUnset} \cup {EnvValue(v) : v \in EnvForceValues}
  /\ uname \in [system : UnameSystems, release : UnameReleases]
  /\ selected = [value |-> FALSE, uname_calls |-> 0]

\* _default_force_polling(force_polling) is called
CallDefaultForcePolling ==
  /\ sel_pc = "args"
  /\ sel_pc' = "done"
  /\ selected' = DefaultForcePolling(force_polling, env_force_polling, uname)
  /\ UNCHANGED <<force_polling, env_force_polling, uname>>
  /\ UNCHANGED <<facadeVars, debounceVars, pollVars, nativeVars, runVars,
                 filterVars, cliVars>>

NextSelect == CallDefaultForcePolling

SpecSelect == InitSelect /\ [][NextSelect]_vars

\* tests/test_force_polling.py, test_default_force_polling: env_var, arg and
\* expected of each case, with release '1'
TestDefaultForcePolling ==
  {<<EnvUnset, "True", TRUE>>, <<EnvUnset, "False", FALSE>>,
   <<EnvUnset, "None", FALSE>>,
   <<EnvValue(<<>>), "True", TRUE>>, <<EnvValue(<<>>), "False", FALSE>>,
   <<EnvValue(<<>>), "None", FALSE>>,
   <<EnvValue(S_1), "True", TRUE>>, <<EnvValue(S_1), "False", FALSE>>,
   <<EnvValue(S_1), "None", TRUE>>,
   <<EnvValue(S_disable), "True", TRUE>>, <<EnvValue(S_disable), "False", FALSE>>,
   <<EnvValue(S_disable), "None", FALSE>>}

\* test_default_force_polling_wsl: env_var, arg, expected and call_count of
\* each case, with release 'Microsoft-Standard'
TestDefaultForcePollingWsl ==
  {<<EnvUnset, "True", TRUE, 0>>, <<EnvUnset, "False", FALSE, 0>>,
   <<EnvUnset, "None", TRUE, 1>>,
   <<EnvValue(<<>>), "True", TRUE, 0>>, <<EnvValue(<<>>), "False", FALSE, 0>>,
   <<EnvValue(<<>>), "None", TRUE, 1>>,
   <<EnvValue(S_1), "True", TRUE, 0>>, <<EnvValue(S_1), "False", FALSE, 0>>,
   <<EnvValue(S_1), "None", TRUE, 0>>,
   <<EnvValue(S_disable), "True", TRUE, 0>>,
   <<EnvValue(S_disable), "False", FALSE, 0>>,
   <<EnvValue(S_disable), "None", FALSE, 0>>}

\* the spellings of the disabling words among the values given
DisableSpellings ==
  {S_false, S_False, S_disable, S_DISABLE, S_disabled, S_Disabled}

\* the platform is a Linux kernel whose release has the WSL signature
WslDetected ==
  uname.system = S_Linux /\ uname.release \in {S_Microsoft_Standard, S_wsl2}

\* C31: the selection of force polling. An explicit argument, true or false,
\* always wins; with no argument, WATCHFILES_FORCE_POLLING absent or empty is
\* no override (polling exactly when the WSL signature is detected), a value
\* that is false, disable or disabled in any case gives native, any other
\* non-empty value gives polling; and the cases of the two tests come out as
\* the tests expect.
C31_ForcePollingSelection ==
  sel_pc = "done" =>
    /\ force_polling # "None" => selected.value = (force_polling = "True")
    /\ (force_polling = "None"
          /\ env_force_polling \in {EnvUnset, EnvValue(<<>>)}) =>
         selected.value = WslDetected
    /\ (force_polling = "None"
          /\ env_force_polling \in {EnvValue(v) : v \in DisableSpellings}) =>
         selected.value = FALSE
    /\ (force_polling = "None"
          /\ env_force_polling.set
          /\ env_force_polling.value \notin DisableSpellings \cup {<<>>}) =>
         selected.value = TRUE
    /\ (uname = [system |-> S_Linux, release |-> S_1]) =>
         \A t \in TestDefaultForcePolling :
           (env_force_polling = t[1] /\ force_polling = t[2]) =>
             selected.value = t[3]
    /\ (uname = [system |-> S_Linux, release |-> S_Microsoft_Standard]) =>
         \A t \in TestDefaultForcePollingWsl :
           (env_force_polling = t[1] /\ force_polling = t[2]) =>
             (selected.value = t[3] /\ selected.uname_calls = t[4])

\* under WSL, with no argument, DISABLE in the environment selected native
C31_Witness ==
  /\ sel_pc = "done"
  /\ force_polling = "None"
  /\ env_force_polling = EnvValue(S_DISABLE)
  /\ WslDetected
  /\ selected.value = FALSE

\* ============================================================ the filters
\* BaseFilter and DefaultFilter of src/watchgod/filters.py; a str is the
\* sequence of its characters.

\* os.sep
Sep == "/"

\* the elements of a tuple
Range(t) == {t[i] : i \in DOMAIN t}

\* path.lstrip(os.sep)
RECURSIVE LStrip(_)
LStrip(s) == IF s # <<>> /\ Head(s) = Sep THEN LStrip(Tail(s)) ELSE s

\* s.split(os.sep)
RECURSIVE Split(_)
Split(s) ==
  IF \E i \in DOMAIN s : s[i] = Sep
    THEN LET i == CHOOSE k \in DOMAIN s :
                    s[k] = Sep /\ \A j \in 1 .. (k - 1) : s[j] # Sep
         IN <<SubSeq(s, 1, i - 1)>> \o Split(SubSeq(s, i + 1, Len(s)))
    ELSE <<s>>

\* s.startswith(prefix) for one prefix
StartsWith(s, prefix) ==
  Len(prefix) <= Len(s) /\ SubSeq(s, 1, Len(prefix)) = prefix

\* the paths a filter is called with (tests/test_filters.py, with /h for
\* Path.home()), the directory names and the ignored paths
P_foo_txt == <<"f", "o", "o", ".", "t", "x", "t">>

P_foo_swp == <<"f", "o", "o", ".", "s", "w", "p">>

P_foo_swx == <<"f", "o", "o", ".", "s", "w", "x">>

P_foo_swx_more ==
  <<"f", "o", "o", ".", "s", "w", "x", ".", "m", "o", "r", "e">>

P_xyz_foo_txt ==
  <<"x", "/", "y", "/", "z", "/", "f", "o", "o", ".", "t", "x", "t">>

P_home_ignore_foo_txt ==
  <<"/", "h", "/", "i", "g", "n", "o", "r", "e", "/", "f", "o", "o", ".",
    "t", "x", "t">>

P_home_ignore == <<"/", "h", "/", "i", "g", "n", "o", "r", "e">>

P_home_git_foo_txt ==
  <<"/", "h", "/", ".", "g", "i", "t", "/", "f", "o", "o", ".", "t", "x",
    "t">>

P_home_foo_foo_txt ==
  <<"/", "h", "/", "f", "o", "o", "/", "f", "o", "o", ".", "t", "x", "t">>

P_git_foo_txt == <<".", "g", "i", "t", "/", "f", "o", "o", ".", "t", "x", "t">>

P_home_ignored_foo_txt ==
  <<"/", "h", "/", "i", "g", "n", "o", "r", "e", "d", "/", "f", "o", "o",
    ".", "t", "x", "t">>

P_home_ignore_txt ==
  <<"/", "h", "/", "i", "g", "n", "o", "r", "e", ".", "t", "x", "t">>

P_foo_pyc == <<"f", "o", "o", ".", "p", "y", "c">>

P_pyc_foo == <<"a", ".", "p", "y", "c", "/", "f", "o", "o">>

P_DS_Store == <<".", "D", "S", "_", "S", "t", "o", "r", "e">>

P_backup == <<"a", "~">>

P_lock == <<".", "#", "a">>

P_flycheck == <<"f", "l", "y", "c", "h", "e", "c", "k", "_", "a">>

P_jb ==
  <<"a", ".", "_", "_", "_", "j", "b", "_", "t", "m", "p", "_", "_", "_">>

P_ab_c_txt == <<"/", "a", "/", "b", "/", "c", ".", "t", "x", "t">>

P_abc_txt == <<"/", "a", "/", "b", "c", ".", "t", "x", "t">>

P_x_cat == <<"x", ".", "c", "a", "t">>

P_banana_x == <<"b", "a", "n", "a", "n", "a", "/", "x">>

D_pycache == <<"_", "_", "p", "y", "c", "a", "c", "h", "e", "_", "_">>

D_git == <<".", "g", "i", "t">>

D_hg == <<".", "h", "g">>

D_svn == <<".", "s", "v", "n">>

D_tox == <<".", "t", "o", "x">>

D_venv == <<".", "v", "e", "n", "v">>

D_site_packages ==
  <<"s", "i", "t", "e", "-", "p", "a", "c", "k", "a", "g", "e", "s">>

D_idea == <<".", "i", "d", "e", "a">>

D_node_modules ==
  <<"n", "o", "d", "e", "_", "m", "o", "d", "u", "l", "e", "s">>

D_apple == <<"a", "p", "p", "l", "e">>

D_banana == <<"b", "a", "n", "a", "n", "a">>

IP_home_ignore == <<"/", "h", "/", "i", "g", "n", "o", "r", "e">>

IP_a_b == <<"/", "a", "/", "b">>

FilterPaths ==
  {P_foo_txt, P_foo_swp, P_foo_swx, P_foo_swx_more, P_xyz_foo_txt,
   P_home_ignore_foo_txt, P_home_ignore, P_home_git_foo_txt,
   P_home_foo_foo_txt, P_git_foo_txt, P_home_ignored_foo_txt,
   P_home_ignore_txt, P_foo_pyc, P_pyc_foo, P_DS_Store, P_backup, P_lock,
   P_flycheck, P_jb, P_ab_c_txt, P_abc_txt, P_x_cat, P_banana_x}

\* the characters `.` of a pattern matches: any character of the paths
AnyChar == UNION {Range(path) : path \in FilterPaths}

\* a compiled pattern: whether it starts with ^ and ends with $, and for
\* each position in between the characters it matches there
\* r'\.py[cod]$'
Re_py_cod ==
  [bol |-> FALSE, eol |-> TRUE,
   atoms |->
     <<{"."}, {"p"}, {"y"}, {"c", "o", "d"}>>]

\* r'\.___jb_...___$'
Re_jb ==
  [bol |-> FALSE, eol |-> TRUE,
   atoms |->
     <<{"."}, {"_"}, {"_"}, {"_"}, {"j"}, {"b"}, {"_"}, AnyChar, AnyChar,
       AnyChar, {"_"}, {"_"}, {"_"}>>]

\* r'\.sw.$'
Re_sw ==
  [bol |-> FALSE, eol |-> TRUE,
   atoms |->
     <<{"."}, {"s"}, {"w"}, AnyChar>>]

\* '~$'
Re_tilde ==
  [bol |-> FALSE, eol |-> TRUE,
   atoms |->
     <<{"~"}>>]

\* r'^\.\#'
Re_lock ==
  [bol |-> TRUE, eol |-> FALSE,
   atoms |->
     <<{"."}, {"#"}>>]

\* r'^\.DS_Store$'
Re_DS_Store ==
  [bol |-> TRUE, eol |-> TRUE,
   atoms |->
     <<{"."}, {"D"}, {"S"}, {"_"}, {"S"}, {"t"}, {"o"}, {"r"}, {"e"}>>]

\* r'^flycheck_'
Re_flycheck ==
  [bol |-> TRUE, eol |-> FALSE,
   atoms |->
     <<{"f"}, {"l"}, {"y"}, {"c"}, {"h"}, {"e"}, {"c"}, {"k"}, {"_"}>>]

\* r'\.cat$' of tests/test_filters.py
Re_cat ==
  [bol |-> FALSE, eol |-> TRUE,
   atoms |->
     <<{"."}, {"c"}, {"a"}, {"t"}>>]

\* r.search(s): the pattern matches at some position of s
Search(r, s) ==
  LET n == Len(r.atoms)
  IN \E i \in 1 .. (Len(s) + 1) :
       /\ r.bol => i = 1
       /\ i + n - 1 <= Len(s)
       /\ r.eol => i + n - 1 = Len(s)
       /\ \A j \in 1 .. n : s[i + j - 1] \in r.atoms[j]

\* an argument of DefaultFilter.__init__: None, or a value
NotGiven == [given |-> FALSE]

Given(v) == [given |-> TRUE, value |-> v]

\* DefaultFilter.ignore_dirs
DefaultIgnoreDirs ==
  {D_pycache, D_git, D_hg, D_svn, D_tox, D_venv, D_site_packages, D_idea,
   D_node_modules}

\* DefaultFilter.ignore_entity_patterns, compiled
DefaultIgnoreEntityPatterns ==
  <<Re_py_cod, Re_jb, Re_sw, Re_tilde, Re_lock, Re_DS_Store, Re_flycheck>>

\* DefaultFilter(ignore_dirs=..., ignore_entity_patterns=...,
\* ignore_paths=...) followed by BaseFilter.__init__
DefaultFilter(ignore_dirs, ignore_entity_patterns, ignore_paths) ==
  [ignore_dirs |->
     IF ignore_dirs.given THEN ignore_dirs.value ELSE DefaultIgnoreDirs,
   ignore_entity_regexes |->
     IF ignore_entity_patterns.given THEN ignore_entity_patterns.value
     ELSE DefaultIgnoreEntityPatterns,
   ignore_paths |-> IF ignore_paths.given THEN ignore_paths.value ELSE <<>>]

\* the filters of tests/test_filters.py
FilterPlain == DefaultFilter(NotGiven, NotGiven, NotGiven)

FilterIgnoreHome == DefaultFilter(NotGiven, NotGiven, Given(<<IP_home_ignore>>))

FilterCustom ==
  DefaultFilter(Given({D_apple, D_banana}), Given(<<Re_cat>>), Given(<<IP_a_b>>))

\* a __call__ that does not look at _ignore_paths
BaseFilterCallNoPaths(f, change, path) ==
  LET parts == Split(LStrip(path))
      entity_name == parts[Len(parts)]
  IN IF \E i \in DOMAIN parts : parts[i] \in f.ignore_dirs
       THEN FALSE
       ELSE IF \E r \in Range(f.ignore_entity_regexes) : Search(r, entity_name)
              THEN FALSE
              ELSE TRUE

\* BaseFilter.__call__(change, path)
BaseFilterCall(f, change, path) ==
  LET parts == Split(LStrip(path))
      entity_name == parts[Len(parts)]
  IN IF \E i \in DOMAIN parts : parts[i] \in f.ignore_dirs
       THEN FALSE
       ELSE IF \E r \in Range(f.ignore_entity_regexes) : Search(r, entity_name)
              THEN FALSE
              ELSE IF /\ f.ignore_paths # <<>>
                      /\ \E i \in DOMAIN f.ignore_paths :
                           StartsWith(path, f.ignore_paths[i])
                     THEN FALSE
                     ELSE TRUE

\* a filter, a change and a path
InitFilter ==
  /\ facadeIdle
  /\ InitDebounceIdle
  /\ InitPollIdle
  /\ InitNativeIdle
  /\ InitRunIdle
  /\ InitSelectIdle
  /\ InitCliIdle
  /\ f_pc = "args"
  /\ flt \in {FilterPlain, FilterIgnoreHome, FilterCustom}
  /\ f_change \in ChangeMembers
  /\ f_path \in FilterPaths
  /\ f_result = FALSE

\* f(change, path)
CallFilter ==
  /\ f_pc = "args"
  /\ f_pc' = "done"
  /\ f_result' = BaseFilterCall(flt, f_change, f_path)
  /\ UNCHANGED <<flt, f_change, f_path>>
  /\ UNCHANGED <<facadeVars, debounceVars, pollVars, nativeVars, runVars,
                 selectVars, cliVars>>

NextFilter == CallFilter

SpecFilter == InitFilter /\ [][NextFilter]_vars

\* tests/test_filters.py, test_default_filter: path and expected
TestDefaultFilter ==
  {<<P_foo_txt, TRUE>>, <<P_foo_swp, FALSE>>, <<P_foo_swx, FALSE>>,
   <<P_foo_swx_more, TRUE>>, <<P_xyz_foo_txt, TRUE>>,
   <<P_home_ignore_foo_txt, FALSE>>, <<P_home_ignore, FALSE>>,
   <<P_home_git_foo_txt, FALSE>>, <<P_home_foo_foo_txt, TRUE>>,
   <<P_git_foo_txt, FALSE>>}

\* some component of the path is in ignore_dirs
InIgnoredDir ==
  \E part \in Range(Split(LStrip(f_path))) : part \in flt.ignore_dirs

\* the last component of the path matches one of ignore_entity_patterns
EntityIgnored ==
  LET parts == Split(LStrip(f_path))
  IN \E r \in Range(flt.ignore_entity_regexes) : Search(r, parts[Len(parts)])

\* C33: DefaultFilter accepts a path if and only if no component of the path
\* is in ignore_dirs, its last component matches none of
\* ignore_entity_patterns and the path does not start with any entry of
\* ignore_paths; the result is the same for every change kind (and the cases
\* of test_default_filter come out as the test expects).
C33_DefaultFilterAccepts ==
  f_pc = "done" =>
    /\ f_result =
         (/\ ~InIgnoredDir
          /\ ~EntityIgnored
          /\ ~\E ip \in Range(flt.ignore_paths) : StartsWith(f_path, ip))
    /\ \A change \in ChangeMembers : BaseFilterCall(flt, change, f_path) = f_result
    /\ flt = FilterIgnoreHome =>
         \A t \in TestDefaultFilter : f_path = t[1] => f_result = t[2]

\* a file under the ignored directory is rejected for a deleted change by
\* the entry of ignore_paths alone
C33_Witness ==
  /\ f_pc = "done"
  /\ flt = FilterIgnoreHome
  /\ f_change = "deleted"
  /\ f_path = P_home_ignore_foo_txt
  /\ ~InIgnoredDir
  /\ ~EntityIgnored
  /\ ~f_result

\* C39: DefaultFilter rejects a path on account of ignore_paths only if the
\* path is an ignored path or lies inside that directory; a sibling that
\* shares a name prefix with an ignored path is not rejected.
C39_IgnorePathsOnlyInside ==
  (f_pc = "done" /\ ~f_result /\ ~InIgnoredDir /\ ~EntityIgnored) =>
    \E ip \in Range(flt.ignore_paths) :
      f_path = ip \/ StartsWith(f_path, ip \o <<Sep>>)

\* ======================================================= the command line
\* cli() of src/watchfiles/cli.py up to its call of run_process.

\* the most paths given on the command line
MaxPaths == 2

\* the targets given: the name, whether it ends with .py or .sh, whether it
\* is a dotted name ([a-zA-Z0-9_]+(\.[a-zA-Z0-9_]+)+), whether it has a dot,
\* and what importing it meets: "ok", "ModuleNotFoundError" (import_module
\* finds no module), "AttributeError" (the module lacks the name) or
\* "RuntimeError" (the module raises while it is executed)
CliTargets ==
  {[name |-> "os.getcwd", ends_py_sh |-> FALSE, dotted |-> TRUE,
    has_dot |-> TRUE, import |-> "ok"],
   [name |-> "foo.bar", ends_py_sh |-> FALSE, dotted |-> TRUE,
    has_dot |-> TRUE, import |-> "ModuleNotFoundError"],
   [name |-> "pprint.foobar", ends_py_sh |-> FALSE, dotted |-> TRUE,
    has_dot |-> TRUE, import |-> "AttributeError"],
   [name |-> "broken.main", ends_py_sh |-> FALSE, dotted |-> TRUE,
    has_dot |-> TRUE, import |-> "RuntimeError"],
   [name |-> "foobar", ends_py_sh |-> FALSE, dotted |-> FALSE,
    has_dot |-> FALSE, import |-> "ModuleNotFoundError"],
   [name |-> "foobar.sh", ends_py_sh |-> TRUE, dotted |-> TRUE,
    has_dot |-> TRUE, import |-> "ModuleNotFoundError"],
   [name |-> "foo --bar -V 3", ends_py_sh |-> FALSE, dotted |-> FALSE,
    has_dot |-> FALSE, import |-> "ModuleNotFoundError"]}

\* the paths given, and Path(p).exists()
CliPathNames == {".", "/does/not/exist"}

Exists(path_str) == path_str # "/does/not/exist"

\* the lists of paths given: nargs='*'
CliPathLists ==
  UNION {[1 .. n -> CliPathNames] : n \in 1 .. MaxPaths}

\* detect_target_type(target) for a str
DetectTargetType(target) ==
  IF target.ends_py_sh THEN "command"
  ELSE IF target.dotted THEN "function"
  ELSE "command"

\* import_string(dotted_path): "ok", or the exception it raises
ImportString(target) ==
  IF ~target.has_dot THEN "ImportError"
  ELSE IF target.import = "ModuleNotFoundError" THEN "ImportError"
  ELSE IF target.import = "AttributeError" THEN "ImportError"
  ELSE target.import

\* an import_exit that prints the ImportError and returns
ImportExitNoExit(target) ==
  LET r == ImportString(target)
  IN IF r = "ImportError"
       THEN [pc |-> "imported", err |-> <<"ImportError: " \o target.name>>,
             status |-> "none"]
       ELSE IF r = "ok"
              THEN [pc |-> "imported", err |-> <<>>, status |-> "none"]
              ELSE [pc |-> "raised", err |-> <<"Traceback: " \o r>>,
                    status |-> 1]

\* import_exit(function_path): an ImportError is printed to stderr and
\* sys.exit(1) is called; any other exception leaves cli(), and the
\* interpreter ends with its traceback on stderr and status 1
ImportExit(target) ==
  LET r == ImportString(target)
  IN IF r = "ImportError"
       THEN [pc |-> "exited", err |-> <<"ImportError: " \o target.name>>,
             status |-> 1]
       ELSE IF r = "ok"
              THEN [pc |-> "imported", err |-> <<>>, status |-> "none"]
              ELSE [pc |-> "raised", err |-> <<"Traceback: " \o r>>,
                    status |-> 1]

\* the first path of the list that does not exist, 0 if all exist:
\* [resolve_path(p) for p in arg_namespace.paths] raises at that one
FirstMissing(paths) ==
  IF \A i \in DOMAIN paths : Exists(paths[i])
    THEN 0
    ELSE CHOOSE i \in DOMAIN paths :
           ~Exists(paths[i]) /\ \A j \in 1 .. (i - 1) : Exists(paths[j])

\* the command line given to cli()
InitCli ==
  /\ facadeIdle
  /\ InitDebounceIdle
  /\ InitPollIdle
  /\ InitNativeIdle
  /\ InitRunIdle
  /\ InitSelectIdle
  /\ InitFilterIdle
  /\ cli_pc = "parsed"
  /\ arg_namespace \in [target : CliTargets,
                         target_type : {"auto", "function", "command"},
                         paths : CliPathLists]
  /\ cli_target_type = "none"
  /\ cli_paths = <<>>
  /\ stderr = <<>>
  /\ exit_status = "none"

\* cli.py lines 130 - 133
CliTargetType ==
  /\ cli_pc = "parsed"
  /\ cli_pc' = "typed"
  /\ cli_target_type' = IF arg_namespace.target_type = "auto"
                          THEN DetectTargetType(arg_namespace.target)
                          ELSE arg_namespace.target_type
  /\ UNCHANGED <<arg_namespace, cli_paths, stderr, exit_status>>
  /\ UNCHANGED <<facadeVars, debounceVars, pollVars, nativeVars, runVars,
                 selectVars, filterVars>>

\* cli.py lines 135 - 141
CliImport ==
  /\ cli_pc = "typed"
  /\ IF cli_target_type = "function"
       THEN LET r == ImportExit(arg_namespace.target)
            IN /\ cli_pc' = r.pc
               /\ stderr' = stderr \o r.err
               /\ exit_status' = r.status
       ELSE /\ cli_pc' = "imported"
            /\ UNCHANGED <<stderr, exit_status>>
  /\ UNCHANGED <<arg_namespace, cli_target_type, cli_paths>>
  /\ UNCHANGED <<facadeVars, debounceVars, pollVars, nativeVars, runVars,
                 selectVars, filterVars>>

\* cli.py lines 143 - 147
CliResolve ==
  /\ cli_pc = "imported"
  /\ LET i == FirstMissing(arg_namespace.paths)
     IN IF i # 0
          THEN /\ cli_pc' = "exited"
               /\ stderr' = stderr \o <<"path does not exist: "
                                           \o arg_namespace.paths[i]>>
               /\ exit_status' = 1
               /\ UNCHANGED cli_paths
          ELSE /\ cli_pc' = "resolved"
               /\ cli_paths' = arg_namespace.paths
               /\ UNCHANGED <<stderr, exit_status>>
  /\ UNCHANGED <<arg_namespace, cli_target_type>>
  /\ UNCHANGED <<facadeVars, debounceVars, pollVars, nativeVars, runVars,
                 selectVars, filterVars>>

\* cli.py lines 149 - 170: the filter is built and run_process is called
CliRunProcess ==
  /\ cli_pc = "resolved"
  /\ cli_pc' = "running"
  /\ UNCHANGED <<arg_namespace, cli_target_type, cli_paths, stderr, exit_status>>
  /\ UNCHANGED <<facadeVars, debounceVars, pollVars, nativeVars, runVars,
                 selectVars, filterVars>>

NextCli ==
  \/ CliTargetType
  \/ CliImport
  \/ CliResolve
  \/ CliRunProcess

SpecCli == InitCli /\ [][NextCli]_vars

\* the target is a function target that cannot be imported
TargetNotImportable ==
  /\ cli_target_type = "function"
  /\ ~(arg_namespace.target.has_dot /\ arg_namespace.target.import = "ok")

\* one of the paths given does not exist
SomePathMissing ==
  \E i \in DOMAIN arg_namespace.paths : ~Exists(arg_namespace.paths[i])

\* C32: when a function target cannot be imported, or a path given does not
\* exist, cli never calls run_process: it ends having written one error to
\* stderr, with exit status 1.
C32_NoRunOnBadInput ==
  (cli_pc \notin {"parsed"} /\ (TargetNotImportable \/ SomePathMissing)) =>
    /\ cli_pc # "running"
    /\ cli_pc # "resolved"
    /\ cli_pc \in {"exited", "raised"} => (exit_status = 1 /\ Len(stderr) = 1)
    /\ cli_pc \notin {"exited", "raised"} => (exit_status = "none" /\ stderr = <<>>)

\* a function that imports was given with a path that does not exist after
\* one that does: cli exited with status 1 and the path on stderr
C32_Witness ==
  /\ cli_pc = "exited"
  /\ cli_target_type = "function"
  /\ arg_namespace.target.name = "os.getcwd"
  /\ arg_namespace.paths = <<".", "/does/not/exist">>
  /\ stderr = <<"path does not exist: /does/not/exist">>
  /\ exit_status = 1

====
